---- MODULE Spec2Model ----
(***************************************************************************)
(* State-machine model of the form/template designer.                      *)
(*                                                                         *)
(*   FormBuilder  (src/src/components/FormBuilder.tsx): the live schema,   *)
(*                the pending-undo record, the move source and the saved   *)
(*                versions, with one action per handler.                   *)
(*   App          (src/src/App.tsx): the registry of custom field types    *)
(*                and the flat list of field libraries.                    *)
(*   FieldDesigner / FieldLibraryBrowser: the drafts through which entries *)
(*                reach the registry and the library list.                 *)
(*   CreateFieldModal: the draft of the modal, kept while it is closed.    *)
(*   FormPreview: the values entered for the fields of the schema.         *)
(*                                                                         *)
(* Conventions.  Indices stored in the state (deletedField.index, the      *)
(* targetIndex of a move) are the 0-based JavaScript indices; sequences    *)
(* are 1-based, so element i of the code is element i+1 here.  An optional *)
(* value is a sequence of length at most one (<<>> is undefined/null).  An *)
(* optional id is 0 when undefined.  generateId() is modelled as a counter *)
(* that never hands out the same id twice.  Title, description, icons and  *)
(* the display-only state (tabs, collapse, focus, currentVersionId) are    *)
(* left out: no handler reads them to decide what it writes.               *)
(***************************************************************************)
EXTENDS Integers, Sequences, FiniteSets, TLC

VARIABLES
    schema,             \* FormBuilder: the live schema, [fields |-> <<FormField>>]
    movingFieldId,      \* FormBuilder: the move source, NoId in the clean state
    deletedField,       \* FormBuilder: the pending-undo record, None or Some
    savedVersions,      \* FormBuilder: the saved versions, newest first
    nextFieldId,        \* the next id generateId() gives a form field
    customFields,       \* App: the registry of custom field types
    fieldLibraries,     \* App: the flat list of libraries
    editingField,       \* FieldDesigner: the open custom-type draft, or None
    editingLibrary,     \* FieldDesigner: the open library draft, or None
    isCreatingLibrary,  \* FieldLibraryBrowser: None, Some(NoId) for 'root', Some(id)
    nextCustomId,       \* the next id generateId() gives a custom field type
    nextLibraryId,      \* the next id generateId() gives a library
    modalField,         \* CreateFieldModal: its draft (the `field` state)
    isOpen,             \* CreateFieldModal: the isOpen prop
    modalEditingField,  \* CreateFieldModal: the editingField prop, None or Some
    preSelectedLibraryId, \* CreateFieldModal: the preSelectedLibraryId prop
    nextModalId,        \* the next id generateId() gives a draft of the modal
    values,             \* FormPreview: the entered values by field id
    last                \* history: the operation just executed (see Op)

vars == <<schema, movingFieldId, deletedField, savedVersions, nextFieldId,
          customFields, fieldLibraries, editingField, editingLibrary,
          isCreatingLibrary, nextCustomId, nextLibraryId, modalField, isOpen,
          modalEditingField, preSelectedLibraryId, nextModalId, values, last>>

appVars == <<customFields, fieldLibraries, editingField, editingLibrary,
             isCreatingLibrary, nextCustomId, nextLibraryId>>

builderVars == <<schema, movingFieldId, deletedField, savedVersions, nextFieldId>>

modalVars == <<modalField, isOpen, modalEditingField, preSelectedLibraryId,
               nextModalId>>

(***************************************************************************)
(* Bounds of the model.                                                    *)
(***************************************************************************)
MaxFields == 3

MaxVersions == 1

MaxMoveFields == 4

MaxCustomFields == 2

MaxLibraries == 2

MaxAppFields == 1

MaxRules == 2

MaxBindingLibraries == 1

MaxBindingRules == 1

MaxVersionFields == 2

MaxFrozenVersions == 2

MaxEditorFields == 2

MaxAbsentFields == 2
\* The ids generateId() gives the drafts of the modal.
MaxModalIds == 4
\* The libraries while the modal is used.
MaxModalLibraries == 1
\* The fields of the schema while values are entered in the preview.
MaxPreviewFields == 1
\* The values a multiple field of the preview holds.
MaxSlots == 3

(***************************************************************************)
(* Optional values and JavaScript array primitives.                        *)
(***************************************************************************)
None == <<>>

Some(x) == <<x>>

NoId == 0

Min(a, b) == IF a < b THEN a ELSE b

Max(a, b) == IF a > b THEN a ELSE b

\* Array.prototype.findIndex with the predicate (f) => f.id === id:
\* the 0-based index of the first match, -1 when there is none.
FindIndex(arr, id) ==
    IF \E i \in 1..Len(arr) : arr[i].id = id
    THEN (CHOOSE i \in 1..Len(arr) :
              /\ arr[i].id = id
              /\ \A j \in 1..(i - 1) : arr[j].id # id) - 1
    ELSE -1

\* Array.prototype.filter with the predicate (f) => f.id !== id.
RECURSIVE FilterOutId(_, _)
FilterOutId(arr, id) ==
    IF arr = <<>> THEN <<>>
    ELSE IF Head(arr).id # id
         THEN <<Head(arr)>> \o FilterOutId(Tail(arr), id)
         ELSE FilterOutId(Tail(arr), id)

\* The start position of Array.prototype.splice: a start beyond the length
\* is the length, a negative start counts from the end and stops at 0.
SpliceStart(len, start) ==
    IF start < 0 THEN Max(len + start, 0) ELSE Min(start, len)

\* arr.splice(start, deleteCount, ...items): the array after the call.
SpliceResult(arr, start, deleteCount, items) ==
    LET s == SpliceStart(Len(arr), start)
        d == Min(Max(deleteCount, 0), Len(arr) - s)
    IN  SubSeq(arr, 1, s) \o items \o SubSeq(arr, s + d + 1, Len(arr))

\* arr.splice(start, deleteCount): the removed elements (the return value).
SpliceRemoved(arr, start, deleteCount) ==
    LET s == SpliceStart(Len(arr), start)
        d == Min(Max(deleteCount, 0), Len(arr) - s)
    IN  SubSeq(arr, s + 1, s + d)

\* JSON.parse(JSON.stringify(schema)): a fresh value with the same fields in
\* the same order; an undefined property is dropped, which reads back as
\* undefined.
DeepCopy(s) == [fields |-> [i \in 1..Len(s.fields) |-> s.fields[i]]]

DefaultOptions == <<"Option 1", "Option 2", "Option 3">>

(***************************************************************************)
(* FormBuilder: values.                                                    *)
(***************************************************************************)
\* The field types the model adds with addField.
AddTypes == {"text"}

\* The labels the model types into the label input of a field editor.
LabelInputs == {"a"}

\* const newField in addField: label and placeholder empty, not required,
\* not multiple, three default options for a dropdown and none otherwise;
\* customFieldTypeId, libraryId and validationRules are not set.
NewField(id, type) ==
    [id |-> id, type |-> type, customFieldTypeId |-> NoId, libraryId |-> NoId,
     label |-> "", placeholder |-> "", required |-> FALSE, multiple |-> FALSE,
     options |-> IF type = "select" THEN Some(DefaultOptions) ELSE None,
     validationRules |-> None]

\* The state a handler finds, kept with the operation in `last`.
Snapshot ==
    [schema |-> schema, deletedField |-> deletedField,
     savedVersions |-> savedVersions, movingFieldId |-> movingFieldId,
     customFields |-> customFields, fieldLibraries |-> fieldLibraries,
     editingField |-> editingField, editingLibrary |-> editingLibrary,
     isCreatingLibrary |-> isCreatingLibrary, modalField |-> modalField,
     modalEditingField |-> modalEditingField, values |-> values]

\* The record of the operation just executed: its name, its arguments (id,
\* 0-based index, and the text typed where the handler reads one, "" where
\* it reads none), the state before it and, for an undoDelete that directly
\* follows a deleteField of a field of the schema, the schema before that
\* deleteField.
Op(name, id, idx) ==
    [op |-> name, id |-> id, idx |-> idx, text |-> "", pre |-> Snapshot,
     beforeDelete |-> IF /\ name = "undoDelete"
                         /\ last.op = "deleteField"
                         /\ last.idx # -1
                      THEN Some(last.pre.schema) ELSE None]

(***************************************************************************)
(* FormBuilder: the state updaters of the handlers.                        *)
(***************************************************************************)
\* addField: fields: [...prev.fields, newField]
AddFieldFields(fields, newField) == fields \o <<newField>>

\* updateField: prev.fields.map((f) => f.id === updatedField.id ? updatedField : f)
UpdateFieldFields(fields, updatedField) ==
    [i \in 1..Len(fields) |->
        IF fields[i].id = updatedField.id THEN updatedField ELSE fields[i]]

\* deleteField: prev.fields.filter((f) => f.id !== id)
DeleteFieldFields(fields, id) == FilterOutId(fields, id)

\* Mutant of UndoDeleteFields: the field is assigned at the recorded index,
\* newFields[deletedField.index] = deletedField.field, instead of spliced in.
UndoDeleteFieldsAssign(fields, deleted) ==
    SpliceResult(fields, deleted.index, 1, <<deleted.field>>)

\* undoDelete: newFields.splice(deletedField.index, 0, deletedField.field)
UndoDeleteFields(fields, deleted) ==
    SpliceResult(fields, deleted.index, 0, <<deleted.field>>)

\* Mutant of AdjustedIndex: the target index is used as it is given.
AdjustedIndexUnadjusted(targetIndex, currentIndex) == targetIndex

\* The adjusted insertion index of moveFieldToPosition.
AdjustedIndex(targetIndex, currentIndex) ==
    IF targetIndex > currentIndex THEN targetIndex - 1 ELSE targetIndex

\* Mutant of MoveFields: the insertion replaces the field at the adjusted
\* index, newFields.splice(adjustedIndex, 1, movedField).
MoveFieldsOverwrite(fields, fieldId, targetIndex) ==
    LET currentIndex == FindIndex(fields, fieldId)
    IN  IF currentIndex = -1 THEN fields
        ELSE LET movedField == SpliceRemoved(fields, currentIndex, 1)
                 newFields  == SpliceResult(fields, currentIndex, 1, <<>>)
             IN  SpliceResult(newFields,
                              AdjustedIndex(targetIndex, currentIndex),
                              1, movedField)

\* The updater of moveFieldToPosition: prev when the field is not found, else
\* the field spliced out of its index and spliced in at the adjusted index.
MoveFields(fields, fieldId, targetIndex) ==
    LET currentIndex == FindIndex(fields, fieldId)
    IN  IF currentIndex = -1 THEN fields
        ELSE LET movedField == SpliceRemoved(fields, currentIndex, 1)
                 newFields  == SpliceResult(fields, currentIndex, 1, <<>>)
             IN  SpliceResult(newFields,
                              AdjustedIndex(targetIndex, currentIndex),
                              0, movedField)

(***************************************************************************)
(* FormBuilder: one action per handler.                                    *)
(***************************************************************************)
\* addField(type), the model stopping at `max` fields.
AddField(type, max) ==
    /\ Len(schema.fields) < max
    /\ nextFieldId <= max
    /\ schema' = [schema EXCEPT
                    !.fields = AddFieldFields(@, NewField(nextFieldId, type))]
    /\ nextFieldId' = nextFieldId + 1
    /\ last' = Op("addField", nextFieldId, Len(schema.fields))
    /\ UNCHANGED <<movingFieldId, deletedField, savedVersions>>
    /\ UNCHANGED appVars
    /\ UNCHANGED <<modalVars, values>>

\* updateField(updatedField)
UpdateField(updatedField, name) ==
    /\ schema' = [schema EXCEPT !.fields = UpdateFieldFields(@, updatedField)]
    /\ last' = Op(name, updatedField.id, -1)
    /\ UNCHANGED <<movingFieldId, deletedField, savedVersions, nextFieldId>>
    /\ UNCHANGED appVars
    /\ UNCHANGED <<modalVars, values>>

\* The label input of the editor of the field rendered at position i:
\* onUpdate({ ...field, label: e.target.value })
EditLabel(i, value) ==
    /\ i \in 1..Len(schema.fields)
    /\ schema.fields[i].label # value
    /\ UpdateField([schema.fields[i] EXCEPT !.label = value], "editLabel")

\* Mutant of DeleteField: the pending-undo record is reset before the field
\* is looked at, so a deletion that finds no field clears it.
DeleteFieldClearsRecord(id) ==
    LET fieldIndex == FindIndex(schema.fields, id)
    IN  /\ IF fieldIndex # -1
           THEN /\ deletedField' = Some([field |-> schema.fields[fieldIndex + 1],
                                         index |-> fieldIndex])
                /\ schema' = [schema EXCEPT !.fields = DeleteFieldFields(@, id)]
           ELSE /\ deletedField' = None
                /\ UNCHANGED schema
        /\ last' = Op("deleteField", id, fieldIndex)
        /\ UNCHANGED <<movingFieldId, savedVersions, nextFieldId>>
        /\ UNCHANGED appVars
        /\ UNCHANGED <<modalVars, values>>

\* deleteField(id)
DeleteField(id) ==
    LET fieldIndex == FindIndex(schema.fields, id)
    IN  /\ IF fieldIndex # -1
           THEN /\ deletedField' = Some([field |-> schema.fields[fieldIndex + 1],
                                         index |-> fieldIndex])
                /\ schema' = [schema EXCEPT !.fields = DeleteFieldFields(@, id)]
           ELSE UNCHANGED <<deletedField, schema>>
        /\ last' = Op("deleteField", id, fieldIndex)
        /\ UNCHANGED <<movingFieldId, savedVersions, nextFieldId>>
        /\ UNCHANGED appVars
        /\ UNCHANGED <<modalVars, values>>

\* Mutant of UndoDelete: the record is not cleared after the re-insertion.
UndoDeleteKeepsRecord(max) ==
    /\ Len(schema.fields) < max
    /\ IF deletedField # None
       THEN schema' = [schema EXCEPT
                         !.fields = UndoDeleteFields(@, deletedField[1])]
       ELSE UNCHANGED schema
    /\ last' = Op("undoDelete", NoId, -1)
    /\ UNCHANGED <<deletedField, movingFieldId, savedVersions, nextFieldId>>
    /\ UNCHANGED appVars
    /\ UNCHANGED <<modalVars, values>>

\* undoDelete(), the model stopping at `max` fields.
UndoDelete(max) ==
    /\ Len(schema.fields) < max
    /\ IF deletedField # None
       THEN /\ schema' = [schema EXCEPT
                            !.fields = UndoDeleteFields(@, deletedField[1])]
            /\ deletedField' = None
       ELSE UNCHANGED <<schema, deletedField>>
    /\ last' = Op("undoDelete", NoId, -1)
    /\ UNCHANGED <<movingFieldId, savedVersions, nextFieldId>>
    /\ UNCHANGED appVars
    /\ UNCHANGED <<modalVars, values>>

\* dismissToast()
DismissToast ==
    /\ deletedField # None
    /\ deletedField' = None
    /\ last' = Op("dismissToast", NoId, -1)
    /\ UNCHANGED <<schema, movingFieldId, savedVersions, nextFieldId>>
    /\ UNCHANGED appVars
    /\ UNCHANGED <<modalVars, values>>

\* The auto-dismiss timer of the toast, armed while deletedField is set.
AutoDismiss ==
    /\ deletedField # None
    /\ deletedField' = None
    /\ last' = Op("autoDismiss", NoId, -1)
    /\ UNCHANGED <<schema, movingFieldId, savedVersions, nextFieldId>>
    /\ UNCHANGED appVars
    /\ UNCHANGED <<modalVars, values>>

\* handleMoveClick(fieldId), from the Move button of a rendered field.
HandleMoveClick(fieldId) ==
    /\ \E i \in 1..Len(schema.fields) : schema.fields[i].id = fieldId
    /\ movingFieldId' = IF movingFieldId = fieldId THEN NoId ELSE fieldId
    /\ last' = Op("handleMoveClick", fieldId, -1)
    /\ UNCHANGED <<schema, deletedField, savedVersions, nextFieldId>>
    /\ UNCHANGED appVars
    /\ UNCHANGED <<modalVars, values>>

\* cancelMove()
CancelMove ==
    /\ movingFieldId # NoId
    /\ movingFieldId' = NoId
    /\ last' = Op("cancelMove", NoId, -1)
    /\ UNCHANGED <<schema, deletedField, savedVersions, nextFieldId>>
    /\ UNCHANGED appVars
    /\ UNCHANGED <<modalVars, values>>

\* moveFieldToPosition(movingFieldId, targetIndex), from an insertion point.
MoveFieldToPosition(targetIndex) ==
    /\ movingFieldId # NoId
    /\ targetIndex \in 0..Len(schema.fields)
    /\ schema' = [schema EXCEPT
                    !.fields = MoveFields(@, movingFieldId, targetIndex)]
    /\ movingFieldId' = NoId
    /\ last' = Op("moveFieldToPosition", movingFieldId, targetIndex)
    /\ UNCHANGED <<deletedField, savedVersions, nextFieldId>>
    /\ UNCHANGED appVars
    /\ UNCHANGED <<modalVars, values>>

\* Mutant of SaveVersionUpTo: the new version takes the place of the list.
SaveVersionOverwrites(max) ==
    /\ Len(savedVersions) < max
    /\ savedVersions' = <<[schema |-> DeepCopy(schema)]>>
    /\ last' = Op("saveVersion", NoId, -1)
    /\ UNCHANGED <<schema, movingFieldId, deletedField, nextFieldId>>
    /\ UNCHANGED appVars
    /\ UNCHANGED <<modalVars, values>>

\* saveVersion(), the model stopping at `max` versions:
\* setSavedVersions((prev) => [newVersion, ...prev])
SaveVersionUpTo(max) ==
    /\ Len(savedVersions) < max
    /\ savedVersions' = <<[schema |-> DeepCopy(schema)]>> \o savedVersions
    /\ last' = Op("saveVersion", NoId, -1)
    /\ UNCHANGED <<schema, movingFieldId, deletedField, nextFieldId>>
    /\ UNCHANGED appVars
    /\ UNCHANGED <<modalVars, values>>

\* saveVersion(), the model stopping at MaxVersions versions.
SaveVersion == SaveVersionUpTo(MaxVersions)

\* loadVersion(version), version being entry v of the dropdown.
LoadVersion(v) ==
    /\ v \in 1..Len(savedVersions)
    /\ schema' = DeepCopy(savedVersions[v].schema)
    /\ last' = Op("loadVersion", NoId, v - 1)
    /\ UNCHANGED <<movingFieldId, deletedField, savedVersions, nextFieldId>>
    /\ UNCHANGED appVars
    /\ UNCHANGED <<modalVars, values>>

(***************************************************************************)
(* App: the registry of custom field types and the library list.           *)
(***************************************************************************)
\* The names the model types into a name input.
NameInputs == {"n"}

\* The names without a visible character: the empty one and a blank.
BlankInputs == {"", " "}

\* String.prototype.trim on the names of the model: a name of blanks only
\* trims to the empty string.
Trim(name) == IF name \in {"", " "} THEN "" ELSE name

\* Array.prototype.includes.
Includes(arr, x) == \E i \in 1..Len(arr) : arr[i] = x

\* Array.prototype.filter with the predicate (_, i) => i !== index.
RemoveAtIndex(arr, index) ==
    [k \in 1..(Len(arr) - 1) |-> IF k < index + 1 THEN arr[k] ELSE arr[k + 1]]

\* Array.prototype.filter with the predicate (libId) => libId !== id.
RECURSIVE FilterOut(_, _)
FilterOut(arr, x) ==
    IF arr = <<>> THEN <<>>
    ELSE IF Head(arr) # x
         THEN <<Head(arr)>> \o FilterOut(Tail(arr), x)
         ELSE FilterOut(Tail(arr), x)

\* Mutant of Upsert: the entry is appended whether its id is stored or not.
UpsertAppends(prev, entry) == prev \o <<entry>>

\* The updater of handleSaveCustomField and of handleSaveLibrary: the entry
\* with the same id is replaced where it stands, a new id is appended.
Upsert(prev, entry) ==
    LET existingIndex == FindIndex(prev, entry.id)
    IN  IF existingIndex >= 0
        THEN [prev EXCEPT ![existingIndex + 1] = entry]
        ELSE prev \o <<entry>>

\* handleDeleteLibrary, the library list: prev.filter(l => l.id !== id)
DeleteLibraryLibraries(prev, id) == FilterOutId(prev, id)

\* Mutant of DeleteLibraryCustomFields: the custom field types of the deleted
\* library are removed with it.
DeleteLibraryCustomFieldsDrops(prev, id) ==
    SelectSeq(prev, LAMBDA f : ~(f.libraryIds # None /\ Includes(f.libraryIds[1], id)))

\* handleDeleteLibrary, the registry: a custom field type that lists the
\* library keeps everything but that id in libraryIds; the others, and those
\* without libraryIds, are kept as they are.
DeleteLibraryCustomFields(prev, id) ==
    [i \in 1..Len(prev) |->
        IF prev[i].libraryIds # None /\ Includes(prev[i].libraryIds[1], id)
        THEN [prev[i] EXCEPT !.libraryIds = Some(FilterOut(@[1], id))]
        ELSE prev[i]]

\* handleSaveCustomField(field)
HandleSaveCustomField(field) ==
    customFields' = Upsert(customFields, field)

\* handleDeleteCustomField(id); the Delete buttons are rendered while no
\* draft is open.
HandleDeleteCustomField(id) ==
    /\ editingField = None
    /\ customFields' = FilterOutId(customFields, id)
    /\ last' = Op("handleDeleteCustomField", id, -1)
    /\ UNCHANGED <<fieldLibraries, editingField, isCreatingLibrary,
                   nextCustomId, nextLibraryId>>
    /\ UNCHANGED editingLibrary
    /\ UNCHANGED builderVars
    /\ UNCHANGED <<modalVars, values>>

\* handleSaveLibrary(library)
HandleSaveLibrary(library) ==
    fieldLibraries' = Upsert(fieldLibraries, library)

\* Mutant of HandleDeleteLibrary: the deletion also reaches into the schema
\* and clears the libraryId of the fields added from the library.
HandleDeleteLibraryClearsFields(id) ==
    /\ fieldLibraries' = DeleteLibraryLibraries(fieldLibraries, id)
    /\ customFields' = DeleteLibraryCustomFields(customFields, id)
    /\ schema' = [schema EXCEPT !.fields =
            [i \in 1..Len(@) |-> IF @[i].libraryId = id
                                 THEN [@[i] EXCEPT !.libraryId = NoId]
                                 ELSE @[i]]]
    /\ last' = Op("handleDeleteLibrary", id, -1)
    /\ UNCHANGED <<editingField, editingLibrary, isCreatingLibrary,
                   nextCustomId, nextLibraryId>>
    /\ UNCHANGED <<movingFieldId, deletedField, savedVersions, nextFieldId>>
    /\ UNCHANGED <<modalVars, values>>

\* handleDeleteLibrary(id)
HandleDeleteLibrary(id) ==
    /\ fieldLibraries' = DeleteLibraryLibraries(fieldLibraries, id)
    /\ customFields' = DeleteLibraryCustomFields(customFields, id)
    /\ last' = Op("handleDeleteLibrary", id, -1)
    /\ UNCHANGED <<editingField, isCreatingLibrary, nextCustomId, nextLibraryId>>
    /\ UNCHANGED editingLibrary
    /\ UNCHANGED builderVars
    /\ UNCHANGED <<modalVars, values>>

(***************************************************************************)
(* FieldDesigner: the draft of a custom field type.                        *)
(***************************************************************************)
\* createNewField(): an empty draft under a fresh id, without libraryIds.
CreateNewField ==
    /\ editingField = None
    /\ nextCustomId <= MaxCustomFields
    /\ editingField' = Some([id |-> nextCustomId, name |-> "", baseType |-> "text",
                             validationRules |-> <<>>, defaultPlaceholder |-> "",
                             libraryIds |-> None])
    /\ nextCustomId' = nextCustomId + 1
    /\ last' = Op("createNewField", nextCustomId, -1)
    /\ UNCHANGED <<customFields, fieldLibraries, isCreatingLibrary, nextLibraryId>>
    /\ UNCHANGED editingLibrary
    /\ UNCHANGED builderVars
    /\ UNCHANGED <<modalVars, values>>

\* The Edit button of the custom field type listed at position i:
\* setEditingField({ ...field })
StartEditField(i) ==
    /\ editingField = None
    /\ i \in 1..Len(customFields)
    /\ editingField' = Some(customFields[i])
    /\ last' = Op("startEditField", customFields[i].id, i - 1)
    /\ UNCHANGED <<customFields, fieldLibraries, isCreatingLibrary,
                   nextCustomId, nextLibraryId>>
    /\ UNCHANGED editingLibrary
    /\ UNCHANGED builderVars
    /\ UNCHANGED <<modalVars, values>>

\* The name input of the draft: updateEditingField({ name: e.target.value })
EditFieldName(name) ==
    /\ editingField # None
    /\ editingField[1].name # name
    /\ editingField' = Some([editingField[1] EXCEPT !.name = name])
    /\ last' = Op("editFieldName", editingField[1].id, -1)
    /\ UNCHANGED <<customFields, fieldLibraries, isCreatingLibrary,
                   nextCustomId, nextLibraryId>>
    /\ UNCHANGED editingLibrary
    /\ UNCHANGED builderVars
    /\ UNCHANGED <<modalVars, values>>

\* The library ids of a draft after toggleLibraryAssignment(libraryId).
ToggleLibraryIds(libraryIds, libraryId) ==
    LET currentIds == IF libraryIds = None THEN <<>> ELSE libraryIds[1]
    IN  IF Includes(currentIds, libraryId)
        THEN FilterOut(currentIds, libraryId)
        ELSE currentIds \o <<libraryId>>

\* toggleLibraryAssignment(libraryId), from the tag or the search option of a
\* library of the list.
ToggleLibraryAssignment(libraryId) ==
    /\ editingField # None
    /\ \E i \in 1..Len(fieldLibraries) : fieldLibraries[i].id = libraryId
    /\ editingField' = Some([editingField[1] EXCEPT
            !.libraryIds = Some(ToggleLibraryIds(@, libraryId))])
    /\ last' = Op("toggleLibraryAssignment", libraryId, -1)
    /\ UNCHANGED <<customFields, fieldLibraries, isCreatingLibrary,
                   nextCustomId, nextLibraryId>>
    /\ UNCHANGED editingLibrary
    /\ UNCHANGED builderVars
    /\ UNCHANGED <<modalVars, values>>

\* Mutant of HandleSave: the draft is saved whatever its name.
HandleSaveUnchecked ==
    /\ editingField # None
    /\ HandleSaveCustomField(editingField[1])
    /\ editingField' = None
    /\ last' = Op("handleSave", editingField[1].id, -1)
    /\ UNCHANGED <<fieldLibraries, isCreatingLibrary, nextCustomId, nextLibraryId>>
    /\ UNCHANGED editingLibrary
    /\ UNCHANGED builderVars
    /\ UNCHANGED <<modalVars, values>>

\* Mutant of HandleSave: the fields of the schema bound to the saved custom
\* field type follow its base type and its rules.
HandleSavePropagates ==
    /\ editingField # None
    /\ IF Trim(editingField[1].name) # ""
       THEN /\ HandleSaveCustomField(editingField[1])
            /\ editingField' = None
            /\ schema' = [schema EXCEPT !.fields =
                    [i \in 1..Len(@) |->
                        IF @[i].customFieldTypeId = editingField[1].id
                        THEN [@[i] EXCEPT
                                !.type = editingField[1].baseType,
                                !.validationRules =
                                    Some(editingField[1].validationRules)]
                        ELSE @[i]]]
       ELSE UNCHANGED <<customFields, editingField, schema>>
    /\ last' = Op("handleSave", editingField[1].id, -1)
    /\ UNCHANGED <<fieldLibraries, isCreatingLibrary, nextCustomId, nextLibraryId>>
    /\ UNCHANGED editingLibrary
    /\ UNCHANGED <<movingFieldId, deletedField, savedVersions, nextFieldId>>
    /\ UNCHANGED <<modalVars, values>>

\* handleSave(): refused while the trimmed name is empty.
HandleSave ==
    /\ editingField # None
    /\ IF Trim(editingField[1].name) # ""
       THEN /\ HandleSaveCustomField(editingField[1])
            /\ editingField' = None
       ELSE UNCHANGED <<customFields, editingField>>
    /\ last' = Op("handleSave", editingField[1].id, -1)
    /\ UNCHANGED <<fieldLibraries, isCreatingLibrary, nextCustomId, nextLibraryId>>
    /\ UNCHANGED editingLibrary
    /\ UNCHANGED builderVars
    /\ UNCHANGED <<modalVars, values>>

\* handleCancel()
HandleCancel ==
    /\ editingField # None
    /\ editingField' = None
    /\ last' = Op("handleCancel", editingField[1].id, -1)
    /\ UNCHANGED <<customFields, fieldLibraries, isCreatingLibrary,
                   nextCustomId, nextLibraryId>>
    /\ UNCHANGED editingLibrary
    /\ UNCHANGED builderVars
    /\ UNCHANGED <<modalVars, values>>

(***************************************************************************)
(* FieldDesigner: the draft of a library.                                  *)
(***************************************************************************)
\* createNewLibrary(): an empty draft under a fresh id, without parentId.
CreateNewLibrary ==
    /\ editingLibrary = None
    /\ nextLibraryId <= MaxLibraries
    /\ editingLibrary' = Some([id |-> nextLibraryId, name |-> "",
                               parentId |-> NoId])
    /\ nextLibraryId' = nextLibraryId + 1
    /\ last' = Op("createNewLibrary", nextLibraryId, -1)
    /\ UNCHANGED <<customFields, fieldLibraries, editingField,
                   isCreatingLibrary, nextCustomId>>
    /\ UNCHANGED builderVars
    /\ UNCHANGED <<modalVars, values>>

\* The Edit button of the library listed at position i:
\* setEditingLibrary({ ...library })
StartEditLibrary(i) ==
    /\ editingLibrary = None
    /\ i \in 1..Len(fieldLibraries)
    /\ editingLibrary' = Some(fieldLibraries[i])
    /\ last' = Op("startEditLibrary", fieldLibraries[i].id, i - 1)
    /\ UNCHANGED <<customFields, fieldLibraries, editingField,
                   isCreatingLibrary, nextCustomId, nextLibraryId>>
    /\ UNCHANGED builderVars
    /\ UNCHANGED <<modalVars, values>>

\* The name input of the library draft:
\* setEditingLibrary({ ...editingLibrary, name: e.target.value })
EditLibraryName(name) ==
    /\ editingLibrary # None
    /\ editingLibrary[1].name # name
    /\ editingLibrary' = Some([editingLibrary[1] EXCEPT !.name = name])
    /\ last' = Op("editLibraryName", editingLibrary[1].id, -1)
    /\ UNCHANGED <<customFields, fieldLibraries, editingField,
                   isCreatingLibrary, nextCustomId, nextLibraryId>>
    /\ UNCHANGED builderVars
    /\ UNCHANGED <<modalVars, values>>

\* handleSaveLibrary() of FieldDesigner: refused while the trimmed name is
\* empty.
DesignerHandleSaveLibrary ==
    /\ editingLibrary # None
    /\ IF Trim(editingLibrary[1].name) # ""
       THEN /\ HandleSaveLibrary(editingLibrary[1])
            /\ editingLibrary' = None
       ELSE UNCHANGED <<fieldLibraries, editingLibrary>>
    /\ last' = Op("designerHandleSaveLibrary", editingLibrary[1].id, -1)
    /\ UNCHANGED <<customFields, editingField, isCreatingLibrary,
                   nextCustomId, nextLibraryId>>
    /\ UNCHANGED builderVars
    /\ UNCHANGED <<modalVars, values>>

\* handleCancelLibrary()
HandleCancelLibrary ==
    /\ editingLibrary # None
    /\ editingLibrary' = None
    /\ last' = Op("handleCancelLibrary", editingLibrary[1].id, -1)
    /\ UNCHANGED <<customFields, fieldLibraries, editingField,
                   isCreatingLibrary, nextCustomId, nextLibraryId>>
    /\ UNCHANGED builderVars
    /\ UNCHANGED <<modalVars, values>>

\* handleSaveLibrary(library) of App, called with the library listed at
\* position i under another parentId: { ...fieldLibraries[i], parentId }.
HandleSaveLibraryParent(i, parentId) ==
    /\ i \in 1..Len(fieldLibraries)
    /\ \E p \in 1..Len(fieldLibraries) : fieldLibraries[p].id = parentId
    /\ HandleSaveLibrary([fieldLibraries[i] EXCEPT !.parentId = parentId])
    /\ last' = Op("handleSaveLibrary", fieldLibraries[i].id, parentId)
    /\ UNCHANGED <<customFields, editingField, editingLibrary,
                   isCreatingLibrary, nextCustomId, nextLibraryId>>
    /\ UNCHANGED builderVars
    /\ UNCHANGED <<modalVars, values>>

(***************************************************************************)
(* FieldDesigner: the validation rules and the base type of the draft.     *)
(***************************************************************************)
\* BASE_FIELD_TYPES, the options of the base-type select.
BASE_FIELD_TYPES ==
    <<"text", "email", "number", "date", "textarea", "select", "checkbox">>

\* VALIDATION_TYPES: the rule kinds with the base types each applies to.
VALIDATION_TYPES ==
    << [type |-> "regex",     appliesTo |-> <<"text", "email", "textarea">>],
       [type |-> "minLength", appliesTo |-> <<"text", "email", "textarea">>],
       [type |-> "maxLength", appliesTo |-> <<"text", "email", "textarea">>],
       [type |-> "min",       appliesTo |-> <<"number", "date">>],
       [type |-> "max",       appliesTo |-> <<"number", "date">>] >>

\* getApplicableValidationTypes(baseType):
\* VALIDATION_TYPES.filter(v => v.appliesTo.includes(baseType))
GetApplicableValidationTypes(baseType) ==
    SelectSeq(VALIDATION_TYPES, LAMBDA v : Includes(v.appliesTo, baseType))

\* VALIDATION_TYPES.find(v => v.type === rule.type)?.appliesTo.includes(newBaseType):
\* false as well when no entry has the rule's type.
RuleAppliesTo(rule, newBaseType) ==
    \E k \in 1..Len(VALIDATION_TYPES) :
        /\ VALIDATION_TYPES[k].type = rule.type
        /\ \A j \in 1..(k - 1) : VALIDATION_TYPES[j].type # rule.type
        /\ Includes(VALIDATION_TYPES[k].appliesTo, newBaseType)

\* Mutant of ApplicableRules: the rules are kept as they are on a change of
\* the base type.
ApplicableRulesKeepsAll(validationRules, newBaseType) == validationRules

\* const applicableRules of the base-type select's onChange.
ApplicableRules(validationRules, newBaseType) ==
    SelectSeq(validationRules, LAMBDA rule : RuleAppliesTo(rule, newBaseType))

\* The onChange of the base-type select:
\* updateEditingField({ baseType: newBaseType, validationRules: applicableRules })
ChangeBaseType(newBaseType) ==
    /\ editingField # None
    /\ editingField' = Some([editingField[1] EXCEPT
            !.baseType = newBaseType,
            !.validationRules = ApplicableRules(@, newBaseType)])
    /\ last' = Op("changeBaseType", editingField[1].id, -1)
    /\ UNCHANGED <<customFields, fieldLibraries, editingLibrary,
                   isCreatingLibrary, nextCustomId, nextLibraryId>>
    /\ UNCHANGED builderVars
    /\ UNCHANGED <<modalVars, values>>

\* A rule value that is a JavaScript string.
StringValue(text) == [number |-> FALSE, text |-> text]

\* Number(text) for the text of a number input, which is empty or a numeral:
\* Number('') is 0.  The number is kept by its numeral.
NumberValue(text) == [number |-> TRUE, text |-> IF text = "" THEN "0" ELSE text]

\* The kinds whose value input is a number input.
NumericKinds == {"min", "max", "minLength", "maxLength"}

\* The texts the model types into the value input of a rule of a kind: a
\* number input holds a numeral or nothing.
ValueTexts(type) == IF type \in NumericKinds THEN {"", "5"} ELSE {"", "^a$"}

\* addValidationRule(), the model stopping at `max` rules: a rule of the
\* first kind applicable to the base type, nothing when there is none.
AddValidationRule(max) ==
    /\ editingField # None
    /\ Len(editingField[1].validationRules) < max
    /\ LET applicableTypes == GetApplicableValidationTypes(editingField[1].baseType)
       IN  IF Len(applicableTypes) = 0
           THEN UNCHANGED editingField
           ELSE editingField' = Some([editingField[1] EXCEPT
                    !.validationRules = @ \o
                        <<[type |-> applicableTypes[1].type,
                           value |-> StringValue(""), message |-> ""]>>])
    /\ last' = Op("addValidationRule", editingField[1].id, -1)
    /\ UNCHANGED <<customFields, fieldLibraries, editingLibrary,
                   isCreatingLibrary, nextCustomId, nextLibraryId>>
    /\ UNCHANGED builderVars
    /\ UNCHANGED <<modalVars, values>>

\* updateValidationRule(index, { type }), from the kind select of the rule
\* rendered at `index`, whose options are the kinds applicable to the base
\* type of the draft.
UpdateValidationRuleType(index, type) ==
    /\ editingField # None
    /\ index \in 0..(Len(editingField[1].validationRules) - 1)
    /\ \E k \in 1..Len(GetApplicableValidationTypes(editingField[1].baseType)) :
          GetApplicableValidationTypes(editingField[1].baseType)[k].type = type
    /\ editingField' = Some([editingField[1] EXCEPT
            !.validationRules[index + 1].type = type])
    /\ last' = Op("updateValidationRule", editingField[1].id, index)
    /\ UNCHANGED <<customFields, fieldLibraries, editingLibrary,
                   isCreatingLibrary, nextCustomId, nextLibraryId>>
    /\ UNCHANGED builderVars
    /\ UNCHANGED <<modalVars, values>>

\* updateValidationRule(index, { value }), from the value input of the rule
\* rendered at `index`: Number(e.target.value) for a numeric kind,
\* e.target.value otherwise.
UpdateValidationRuleValue(index, text) ==
    /\ editingField # None
    /\ index \in 0..(Len(editingField[1].validationRules) - 1)
    /\ text \in ValueTexts(editingField[1].validationRules[index + 1].type)
    /\ editingField' = Some([editingField[1] EXCEPT
            !.validationRules[index + 1].value =
                IF editingField[1].validationRules[index + 1].type \in NumericKinds
                THEN NumberValue(text) ELSE StringValue(text)])
    /\ last' = [Op("updateValidationRuleValue", editingField[1].id, index)
                    EXCEPT !.text = text]
    /\ UNCHANGED <<customFields, fieldLibraries, editingLibrary,
                   isCreatingLibrary, nextCustomId, nextLibraryId>>
    /\ UNCHANGED builderVars
    /\ UNCHANGED <<modalVars, values>>

\* removeValidationRule(index): validationRules.filter((_, i) => i !== index)
RemoveValidationRule(index) ==
    /\ editingField # None
    /\ index \in 0..(Len(editingField[1].validationRules) - 1)
    /\ editingField' = Some([editingField[1] EXCEPT
            !.validationRules = SpliceResult(@, index, 1, <<>>)])
    /\ last' = Op("removeValidationRule", editingField[1].id, index)
    /\ UNCHANGED <<customFields, fieldLibraries, editingLibrary,
                   isCreatingLibrary, nextCustomId, nextLibraryId>>
    /\ UNCHANGED builderVars
    /\ UNCHANGED <<modalVars, values>>

(***************************************************************************)
(* FieldLibraryBrowser: creating a library, adding a field of a library.   *)
(***************************************************************************)
\* handleStartCreateLibrary(parentId): null from the "+ New" button, the id of
\* a rendered library from its sub-folder button.  The marker 'root' that
\* the code stores for null is Some(NoId) here.
HandleStartCreateLibrary(parentId) ==
    /\ \/ parentId = NoId
       \/ \E i \in 1..Len(fieldLibraries) : fieldLibraries[i].id = parentId
    /\ isCreatingLibrary' = Some(parentId)
    /\ last' = Op("handleStartCreateLibrary", parentId, -1)
    /\ UNCHANGED <<customFields, fieldLibraries, editingField,
                   nextCustomId, nextLibraryId>>
    /\ UNCHANGED editingLibrary
    /\ UNCHANGED builderVars
    /\ UNCHANGED <<modalVars, values>>

\* The onCreateLibrary(name, parentId) the browser is given: a library under a
\* fresh id; a parentId that names no library of the list is refused.
OnCreateLibrary(name, parentId) ==
    IF parentId # NoId /\ FindIndex(fieldLibraries, parentId) = -1
    THEN UNCHANGED <<fieldLibraries, nextLibraryId>>
    ELSE /\ HandleSaveLibrary([id |-> nextLibraryId, name |-> name,
                               parentId |-> parentId])
         /\ nextLibraryId' = nextLibraryId + 1

\* Mutant of HandleCreateLibrary: the name is passed on without the check of
\* its trimmed value.
HandleCreateLibraryUnchecked(newLibraryName) ==
    /\ isCreatingLibrary # None
    /\ nextLibraryId <= MaxLibraries
    /\ OnCreateLibrary(Trim(newLibraryName), isCreatingLibrary[1])
    /\ isCreatingLibrary' = None
    /\ last' = [Op("handleCreateLibrary", nextLibraryId, -1)
                    EXCEPT !.text = newLibraryName]
    /\ UNCHANGED <<customFields, editingField, nextCustomId>>
    /\ UNCHANGED editingLibrary
    /\ UNCHANGED builderVars
    /\ UNCHANGED <<modalVars, values>>

\* handleCreateLibrary(), newLibraryName being the text typed in the inline
\* input: an empty trimmed name only closes the input.
HandleCreateLibrary(newLibraryName) ==
    /\ isCreatingLibrary # None
    /\ nextLibraryId <= MaxLibraries
    /\ IF Trim(newLibraryName) = ""
       THEN UNCHANGED <<fieldLibraries, nextLibraryId>>
       ELSE OnCreateLibrary(Trim(newLibraryName), isCreatingLibrary[1])
    /\ isCreatingLibrary' = None
    /\ last' = [Op("handleCreateLibrary", nextLibraryId, -1)
                    EXCEPT !.text = newLibraryName]
    /\ UNCHANGED <<customFields, editingField, nextCustomId>>
    /\ UNCHANGED editingLibrary
    /\ UNCHANGED builderVars
    /\ UNCHANGED <<modalVars, values>>

\* handleCancelCreateLibrary()
HandleCancelCreateLibrary ==
    /\ isCreatingLibrary # None
    /\ isCreatingLibrary' = None
    /\ last' = Op("handleCancelCreateLibrary", NoId, -1)
    /\ UNCHANGED <<customFields, fieldLibraries, editingField,
                   nextCustomId, nextLibraryId>>
    /\ UNCHANGED editingLibrary
    /\ UNCHANGED builderVars
    /\ UNCHANGED <<modalVars, values>>

\* The field addField(type, customFieldTypeId, libraryId) appends for a custom
\* field type: the type's base type, its rules copied, its default
\* placeholder, under a fresh id.
NewLibraryField(id, customField, libraryId) ==
    [NewField(id, customField.baseType) EXCEPT
        !.customFieldTypeId = customField.id,
        !.libraryId = libraryId,
        !.placeholder = customField.defaultPlaceholder,
        !.validationRules = Some(customField.validationRules)]

\* handleAddSelectedField() with the custom field type at position i of the
\* registry selected under library libraryId:
\* onAddField(customField.baseType, customField.id, selectedField.libraryId)
AddFieldFromLibrary(i, libraryId, max) ==
    /\ Len(schema.fields) < max
    /\ nextFieldId <= max
    /\ i \in 1..Len(customFields)
    /\ \E l \in 1..Len(fieldLibraries) : fieldLibraries[l].id = libraryId
    /\ customFields[i].libraryIds # None
    /\ Includes(customFields[i].libraryIds[1], libraryId)
    /\ schema' = [schema EXCEPT !.fields =
            AddFieldFields(@, NewLibraryField(nextFieldId, customFields[i], libraryId))]
    /\ nextFieldId' = nextFieldId + 1
    /\ last' = Op("addFieldFromLibrary", nextFieldId, Len(schema.fields))
    /\ UNCHANGED <<movingFieldId, deletedField, savedVersions>>
    /\ UNCHANGED appVars
    /\ UNCHANGED <<modalVars, values>>

(***************************************************************************)
(* FieldEditor: the type select and the options text of a field.           *)
(***************************************************************************)
\* The texts the model types into the options textarea, as their lines:
\* ''.split('\n') is [''].
OptionTexts == { <<"">>, <<"x">>, <<"x", " ">> }

\* isLibraryField: the field has a libraryId and some custom field type of
\* the registry lists that library.
IsLibraryField(field) ==
    /\ field.libraryId # NoId
    /\ \E i \in 1..Len(customFields) :
          /\ customFields[i].libraryIds # None
          /\ Includes(customFields[i].libraryIds[1], field.libraryId)

\* field.options || ['Option 1', 'Option 2', 'Option 3']: an array, also the
\* empty one, is truthy.
OptionsOrDefault(field) ==
    IF field.options # None THEN field.options ELSE Some(DefaultOptions)

\* Mutant of TypeChangeLibrary: the rules of the field are left as they are.
TypeChangeLibraryKeepsRules(field, customField) ==
    [field EXCEPT
        !.type = customField.baseType,
        !.customFieldTypeId = customField.id,
        !.options = IF customField.baseType = "select"
                    THEN OptionsOrDefault(field) ELSE None]

\* const updatedField of the library branch of handleTypeChange.
TypeChangeLibrary(field, customField) ==
    [field EXCEPT
        !.type = customField.baseType,
        !.customFieldTypeId = customField.id,
        !.options = IF customField.baseType = "select"
                    THEN OptionsOrDefault(field) ELSE None,
        !.validationRules = Some(customField.validationRules)]

\* const updatedField of the standard branch of handleTypeChange.
TypeChangeStandard(field, newType) ==
    [field EXCEPT
        !.type = newType,
        !.customFieldTypeId = NoId,
        !.options = IF newType = "select" THEN OptionsOrDefault(field) ELSE None]

\* handleTypeChange(value) of the editor of the field rendered at position i.
\* The value of the select is a custom field type id (`value`) for a library
\* field and a standard type (`newType`) otherwise; last.idx keeps `value`.
HandleTypeChange(i, value, newType) ==
    /\ i \in 1..Len(schema.fields)
    /\ LET field == schema.fields[i]
           found == FindIndex(customFields, value)
       IN  /\ IF IsLibraryField(field)
              THEN IF found # -1
                   THEN schema' = [schema EXCEPT !.fields =
                            UpdateFieldFields(@, TypeChangeLibrary(field,
                                                    customFields[found + 1]))]
                   ELSE UNCHANGED schema
              ELSE schema' = [schema EXCEPT !.fields =
                       UpdateFieldFields(@, TypeChangeStandard(field, newType))]
           /\ last' = Op(IF IsLibraryField(field) THEN "handleTypeChangeLibrary"
                         ELSE "handleTypeChangeStandard", field.id, value)
    /\ UNCHANGED <<movingFieldId, deletedField, savedVersions, nextFieldId>>
    /\ UNCHANGED appVars
    /\ UNCHANGED <<modalVars, values>>

\* The options textarea as the code filters it:
\* e.target.value.split('\n').filter((o) => o.trim())
OptionsOfText(lines) == SelectSeq(lines, LAMBDA o : Trim(o) # "")

\* The onChange of the options textarea, rendered for a dropdown field:
\* onUpdate({ ...field, options })
EditOptions(i, lines) ==
    /\ i \in 1..Len(schema.fields)
    /\ schema.fields[i].type = "select"
    /\ schema' = [schema EXCEPT !.fields =
            UpdateFieldFields(@, [schema.fields[i] EXCEPT
                                    !.options = Some(OptionsOfText(lines))])]
    /\ last' = Op("editOptions", schema.fields[i].id, i - 1)
    /\ UNCHANGED <<movingFieldId, deletedField, savedVersions, nextFieldId>>
    /\ UNCHANGED appVars
    /\ UNCHANGED <<modalVars, values>>

(***************************************************************************)
(* FieldLibraryBrowser: the library tree built from the flat list.         *)
(***************************************************************************)
\* customFields.filter(cf => cf.libraryIds?.includes(library.id))
LibraryFieldsOf(fields, libraryId) ==
    SelectSeq(fields, LAMBDA cf :
        cf.libraryIds # None /\ Includes(cf.libraryIds[1], libraryId))

\* library.parentId && libraryMap.has(library.parentId)
HasParentNode(libs, library) ==
    library.parentId # NoId /\ FindIndex(libs, library.parentId) # -1

\* The node of a library after the second pass: its children are the nodes
\* pushed to it, in the order of the flat list.
RECURSIVE LibraryNode(_, _, _)
LibraryNode(libs, fields, library) ==
    LET pushed == SelectSeq(libs, LAMBDA l :
                      HasParentNode(libs, l) /\ l.parentId = library.id)
    IN  [library  |-> library,
         children |-> [k \in 1..Len(pushed) |->
                          LibraryNode(libs, fields, pushed[k])],
         fields   |-> LibraryFieldsOf(fields, library.id)]

\* libraryTree: rootLibraries, the nodes of the libraries without a parent
\* node, in the order of the flat list.
LibraryTree(libs, fields) ==
    LET roots == SelectSeq(libs, LAMBDA l : ~HasParentNode(libs, l))
    IN  [k \in 1..Len(roots) |-> LibraryNode(libs, fields, roots[k])]

(***************************************************************************)
(* CreateFieldModal: the draft of the modal.  The component stays mounted; *)
(* isOpen, editingField and preSelectedLibraryId are the props its host    *)
(* sets when it opens the modal, and onClose sets isOpen to false.         *)
(***************************************************************************)
\* createEmptyField(libraryId), `id` being what generateId() returns.
CreateEmptyField(id, libraryId) ==
    [id |-> id, name |-> "", baseType |-> "text", validationRules |-> <<>>,
     defaultPlaceholder |-> "",
     libraryIds |-> Some(IF libraryId # NoId THEN <<libraryId>> ELSE <<>>)]

\* field.libraryIds?.join(',') !==
\*     (preSelectedLibraryId ? [preSelectedLibraryId].join(',') : '')
\* The ids hold no comma, so two joined lists differ when the lists differ;
\* the join of an undefined libraryIds is undefined and differs from both.
JoinDiffers(libraryIds, libraryId) ==
    \/ libraryIds = None
    \/ libraryIds[1] # (IF libraryId # NoId THEN <<libraryId>> ELSE <<>>)

\* The second condition under which a render calls handleOpen: the modal is
\* open in create mode over a draft without a name whose libraryIds are not
\* those of the pre-selection.
ResetsToEmpty(draft, open, editing, libraryId) ==
    /\ open
    /\ editing = None
    /\ draft.name = ""
    /\ JoinDiffers(draft.libraryIds, libraryId)

\* The draft after a render: handleOpen copies editingField when the modal is
\* open in edit mode over a draft of another id, and sets an empty draft
\* under the id `id` under the second condition.
RenderedDraft(draft, open, editing, libraryId, id) ==
    IF open /\ editing # None /\ draft.id # editing[1].id
    THEN editing[1]
    ELSE IF ResetsToEmpty(draft, open, editing, libraryId)
         THEN CreateEmptyField(id, libraryId)
         ELSE draft

\* A setField(draft) of a handler of the open modal, and the render after it.
SetField(draft) ==
    /\ modalField' = RenderedDraft(draft, isOpen, modalEditingField,
                                   preSelectedLibraryId, nextModalId)
    /\ nextModalId' = IF ResetsToEmpty(draft, isOpen, modalEditingField,
                                       preSelectedLibraryId)
                      THEN nextModalId + 1 ELSE nextModalId

\* The host opens the modal with the props editingField and
\* preSelectedLibraryId, and the modal renders.
OpenModal(editing, libraryId) ==
    /\ ~isOpen
    /\ nextModalId <= MaxCustomFields + MaxModalIds
    /\ isOpen' = TRUE
    /\ modalEditingField' = editing
    /\ preSelectedLibraryId' = libraryId
    /\ modalField' = RenderedDraft(modalField, TRUE, editing, libraryId,
                                   nextModalId)
    /\ nextModalId' = IF /\ ~(editing # None /\ modalField.id # editing[1].id)
                         /\ ResetsToEmpty(modalField, TRUE, editing, libraryId)
                      THEN nextModalId + 1 ELSE nextModalId
    /\ UNCHANGED <<customFields, fieldLibraries, editingField, editingLibrary,
                   isCreatingLibrary, nextCustomId, nextLibraryId>>
    /\ UNCHANGED builderVars
    /\ UNCHANGED values

\* The modal opened in create mode, for the library libraryId or for none.
OpenCreateModal(libraryId) ==
    /\ libraryId # NoId =>
            \E l \in 1..Len(fieldLibraries) : fieldLibraries[l].id = libraryId
    /\ OpenModal(None, libraryId)
    /\ last' = Op("openCreateModal", NoId, libraryId)

\* The modal opened in edit mode on the custom field type at position i.
OpenEditModal(i) ==
    /\ i \in 1..Len(customFields)
    /\ OpenModal(Some(customFields[i]), NoId)
    /\ last' = Op("openEditModal", customFields[i].id, i - 1)

\* The name input of the modal: updateField({ name: e.target.value })
ModalUpdateName(name) ==
    /\ isOpen
    /\ nextModalId <= MaxCustomFields + MaxModalIds
    /\ modalField.name # name
    /\ SetField([modalField EXCEPT !.name = name])
    /\ last' = [Op("modalUpdateName", modalField.id, -1) EXCEPT !.text = name]
    /\ UNCHANGED <<isOpen, modalEditingField, preSelectedLibraryId>>
    /\ UNCHANGED appVars
    /\ UNCHANGED builderVars
    /\ UNCHANGED values

\* toggleLibraryAssignment(libraryId) of the modal.
ModalToggleLibraryAssignment(libraryId) ==
    /\ isOpen
    /\ nextModalId <= MaxCustomFields + MaxModalIds
    /\ \E l \in 1..Len(fieldLibraries) : fieldLibraries[l].id = libraryId
    /\ SetField([modalField EXCEPT
            !.libraryIds = Some(ToggleLibraryIds(@, libraryId))])
    /\ last' = Op("modalToggleLibraryAssignment", modalField.id, libraryId)
    /\ UNCHANGED <<isOpen, modalEditingField, preSelectedLibraryId>>
    /\ UNCHANGED appVars
    /\ UNCHANGED builderVars
    /\ UNCHANGED values

\* handleSave() of the modal: a draft with a name is passed to onSave, the
\* draft of create mode is replaced by an empty one, and the modal closes.
ModalHandleSave ==
    /\ isOpen
    /\ nextModalId <= MaxCustomFields + MaxModalIds
    /\ IF Trim(modalField.name) # ""
       THEN /\ HandleSaveCustomField(modalField)
            /\ IF modalEditingField = None
               THEN /\ modalField' = CreateEmptyField(nextModalId,
                                                      preSelectedLibraryId)
                    /\ nextModalId' = nextModalId + 1
               ELSE UNCHANGED <<modalField, nextModalId>>
            /\ isOpen' = FALSE
       ELSE UNCHANGED <<customFields, modalField, nextModalId, isOpen>>
    /\ last' = Op("modalHandleSave", modalField.id, -1)
    /\ UNCHANGED <<modalEditingField, preSelectedLibraryId>>
    /\ UNCHANGED <<fieldLibraries, editingField, editingLibrary,
                   isCreatingLibrary, nextCustomId, nextLibraryId>>
    /\ UNCHANGED builderVars
    /\ UNCHANGED values

\* handleCancel() of the modal: the draft of create mode is replaced by an
\* empty one, and the modal closes.
ModalHandleCancel ==
    /\ isOpen
    /\ nextModalId <= MaxCustomFields + MaxModalIds
    /\ IF modalEditingField = None
       THEN /\ modalField' = CreateEmptyField(nextModalId, preSelectedLibraryId)
            /\ nextModalId' = nextModalId + 1
       ELSE UNCHANGED <<modalField, nextModalId>>
    /\ isOpen' = FALSE
    /\ last' = Op("modalHandleCancel", modalField.id, -1)
    /\ UNCHANGED <<modalEditingField, preSelectedLibraryId>>
    /\ UNCHANGED appVars
    /\ UNCHANGED builderVars
    /\ UNCHANGED values

(***************************************************************************)
(* FormPreview: the entered values.  A text is the sequence of its         *)
(* characters; an entered value is a string (array FALSE, its text the     *)
(* one item) or an array of strings (array TRUE).                          *)
(***************************************************************************)
\* A string value.
StringOf(text) == [array |-> FALSE, items |-> <<text>>]

\* An array value.
ArrayOf(texts) == [array |-> TRUE, items |-> texts]

\* prev[fieldId], undefined when nothing was entered for the field.
ValueOf(vals, fieldId) ==
    IF fieldId \in DOMAIN vals THEN Some(vals[fieldId]) ELSE None

\* `value || fallback`: undefined and the empty string are falsy, an array
\* is not.
OrElse(value, fallback) ==
    IF value = None \/ (~value[1].array /\ value[1].items[1] = <<>>)
    THEN fallback ELSE value[1]

\* [...currentValues]: the elements of an array; of a string, its characters,
\* each a string of its own.
SpreadOf(value) ==
    IF value.array THEN value.items
    ELSE [k \in 1..Len(value.items[1]) |-> <<value.items[1][k]>>]

\* { ...prev, [fieldId]: value }
WithValue(vals, fieldId, value) ==
    [k \in DOMAIN vals \cup {fieldId} |-> IF k = fieldId THEN value ELSE vals[k]]

\* newValues[index] = value, index being at most the length of newValues.
AssignAt(texts, index, text) ==
    [k \in 1..Max(Len(texts), index + 1) |-> IF k = index + 1 THEN text
                                               ELSE texts[k]]

\* The inputs renderField shows for a field: one for each entered value of a
\* multiple field that is not a checkbox, and one otherwise.
RenderedValues(fld, vals) ==
    IF fld.multiple /\ fld.type # "checkbox"
    THEN LET fieldValues == OrElse(ValueOf(vals, fld.id), ArrayOf(<<<<>>>>))
         IN  IF fieldValues.array THEN fieldValues.items
             ELSE <<fieldValues.items[1]>>
    ELSE LET fieldValues == OrElse(ValueOf(vals, fld.id), StringOf(<<>>))
         IN  IF ~fieldValues.array THEN <<fieldValues.items[1]>>
             ELSE IF fieldValues.items = <<>> THEN <<<<>>>>
             ELSE <<fieldValues.items[1]>>

\* handleChange(fieldId, value, index) from the input at `index` of the field
\* rendered at position i; the input of a field rendered with one input
\* passes no index.
HandleChange(i, text, index) ==
    /\ i \in 1..Len(schema.fields)
    /\ LET fld      == schema.fields[i]
           withIdx  == fld.multiple /\ fld.type # "checkbox"
           current  == OrElse(ValueOf(values, fld.id), ArrayOf(<<<<>>>>))
       IN  /\ index \in 0..(Len(RenderedValues(fld, values)) - 1)
           /\ ~withIdx => index = 0
           /\ values' = IF withIdx
                        THEN WithValue(values, fld.id,
                                ArrayOf(AssignAt(SpreadOf(current), index, text)))
                        ELSE WithValue(values, fld.id, StringOf(text))
           /\ last' = Op("handleChange", fld.id, index)
    /\ UNCHANGED builderVars
    /\ UNCHANGED appVars
    /\ UNCHANGED modalVars

\* addValue(fieldId), from the button of a field rendered with its values.
AddValue(i) ==
    /\ i \in 1..Len(schema.fields)
    /\ schema.fields[i].multiple /\ schema.fields[i].type # "checkbox"
    /\ Len(RenderedValues(schema.fields[i], values)) < MaxSlots
    /\ LET current == OrElse(ValueOf(values, schema.fields[i].id),
                             ArrayOf(<<<<>>>>))
       IN  values' = WithValue(values, schema.fields[i].id,
                               ArrayOf(SpreadOf(current) \o <<<<>>>>))
    /\ last' = Op("addValue", schema.fields[i].id, -1)
    /\ UNCHANGED builderVars
    /\ UNCHANGED appVars
    /\ UNCHANGED modalVars

\* removeValue(fieldId, index), from the button of the value at `index`,
\* rendered while the field shows more than one value.
RemoveValue(i, index) ==
    /\ i \in 1..Len(schema.fields)
    /\ schema.fields[i].multiple /\ schema.fields[i].type # "checkbox"
    /\ Len(RenderedValues(schema.fields[i], values)) > 1
    /\ index \in 0..(Len(RenderedValues(schema.fields[i], values)) - 1)
    /\ LET current == OrElse(ValueOf(values, schema.fields[i].id),
                             ArrayOf(<<<<>>>>))
       IN  values' = IF Len(current.items) <= 1 THEN values
                     ELSE WithValue(values, schema.fields[i].id,
                            ArrayOf(RemoveAtIndex(current.items, index)))
    /\ last' = Op("removeValue", schema.fields[i].id, index)
    /\ UNCHANGED builderVars
    /\ UNCHANGED appVars
    /\ UNCHANGED modalVars

\* The 'Allow Multiple Values' checkbox of the editor of the field rendered at
\* position i: onUpdate({ ...field, multiple: e.target.checked })
EditMultiple(i, checked) ==
    /\ i \in 1..Len(schema.fields)
    /\ schema.fields[i].multiple # checked
    /\ UpdateField([schema.fields[i] EXCEPT !.multiple = checked],
                   "editMultiple")

(***************************************************************************)
(* Initial state: the useState initialisers of FormBuilder and App.        *)
(***************************************************************************)
Init ==
    /\ schema = [fields |-> <<>>]
    /\ movingFieldId = NoId
    /\ deletedField = None
    /\ savedVersions = <<>>
    /\ nextFieldId = 1
    /\ customFields = <<>>
    /\ fieldLibraries = <<>>
    /\ editingField = None
    /\ editingLibrary = None
    /\ isCreatingLibrary = None
    /\ nextCustomId = 1
    /\ nextLibraryId = 1
    /\ modalField = CreateEmptyField(MaxCustomFields + 1, NoId)
    /\ isOpen = FALSE
    /\ modalEditingField = None
    /\ preSelectedLibraryId = NoId
    /\ nextModalId = MaxCustomFields + 2
    /\ values = <<>>
    /\ last = [op |-> "init", id |-> NoId, idx |-> -1, text |-> "",
               pre |-> [schema |-> [fields |-> <<>>], deletedField |-> None,
                        savedVersions |-> <<>>, movingFieldId |-> NoId,
                        customFields |-> <<>>, fieldLibraries |-> <<>>,
                        editingField |-> None, editingLibrary |-> None,
                        isCreatingLibrary |-> None,
                        modalField |->
                            CreateEmptyField(MaxCustomFields + 1, NoId),
                        modalEditingField |-> None, values |-> <<>>],
               beforeDelete |-> None]

(***************************************************************************)
(* The schema editor: every handler of FormBuilder.                        *)
(***************************************************************************)
Next ==
    \/ \E type \in AddTypes : AddField(type, MaxFields)
    \/ \E id \in 1..MaxFields : DeleteField(id)
    \/ UndoDelete(MaxFields)
    \/ DismissToast
    \/ AutoDismiss
    \/ \E id \in 1..MaxFields : HandleMoveClick(id)
    \/ CancelMove
    \/ \E targetIndex \in 0..MaxFields : MoveFieldToPosition(targetIndex)
    \/ SaveVersion
    \/ \E v \in 1..MaxVersions : LoadVersion(v)

Spec == Init /\ [][Next]_vars

(***************************************************************************)
(* Reordering alone, on schemas of up to MaxMoveFields fields.             *)
(***************************************************************************)
NextMove ==
    \/ AddField("text", MaxMoveFields)
    \/ \E id \in 1..MaxMoveFields : HandleMoveClick(id)
    \/ CancelMove
    \/ \E targetIndex \in 0..MaxMoveFields : MoveFieldToPosition(targetIndex)

SpecMove == Init /\ [][NextMove]_vars

(***************************************************************************)
(* The registry and the library list, with the fields and the versions of  *)
(* the schema that refer to them.                                          *)
(***************************************************************************)
NextApp ==
    \/ CreateNewField
    \/ \E i \in 1..MaxCustomFields : StartEditField(i)
    \/ \E name \in NameInputs : EditFieldName(name)
    \/ \E libraryId \in 1..MaxLibraries : ToggleLibraryAssignment(libraryId)
    \/ HandleSave
    \/ HandleCancel
    \/ \E id \in 1..MaxCustomFields : HandleDeleteCustomField(id)
    \/ \E parentId \in 0..MaxLibraries : HandleStartCreateLibrary(parentId)
    \/ \E name \in NameInputs \cup BlankInputs : HandleCreateLibrary(name)
    \/ HandleCancelCreateLibrary
    \/ \E id \in 1..MaxLibraries : HandleDeleteLibrary(id)

SpecApp == Init /\ [][NextApp]_vars

(***************************************************************************)
(* Library-bound fields: the registry and the library list together with   *)
(* the schema fields added from a library and the versions that hold them. *)
(***************************************************************************)
NextLibraryFields ==
    \/ CreateNewField
    \/ \E name \in NameInputs : EditFieldName(name)
    \/ \E libraryId \in 1..MaxLibraries : ToggleLibraryAssignment(libraryId)
    \/ HandleSave
    \/ \E parentId \in 0..MaxLibraries : HandleStartCreateLibrary(parentId)
    \/ \E name \in NameInputs : HandleCreateLibrary(name)
    \/ \E id \in 1..MaxLibraries : HandleDeleteLibrary(id)
    \/ \E i \in 1..MaxCustomFields, libraryId \in 1..MaxLibraries :
            AddFieldFromLibrary(i, libraryId, MaxAppFields)
    \/ SaveVersion

SpecLibraryFields == Init /\ [][NextLibraryFields]_vars

(***************************************************************************)
(* Binding: fields of the schema bound to custom field types of a library, *)
(* while the registry goes on being edited.                                *)
(***************************************************************************)
\* The base types the drafts of this specification are switched to.
BindingBaseTypes == {"number", "select"}

NextBinding ==
    \/ HandleStartCreateLibrary(NoId)
    \/ /\ nextLibraryId <= MaxBindingLibraries
       /\ HandleCreateLibrary("n")
    \/ CreateNewField
    \/ \E i \in 1..MaxCustomFields : StartEditField(i)
    \/ \E name \in NameInputs : EditFieldName(name)
    \/ \E newBaseType \in BindingBaseTypes : ChangeBaseType(newBaseType)
    \/ AddValidationRule(MaxBindingRules)
    \/ \E libraryId \in 1..MaxBindingLibraries : ToggleLibraryAssignment(libraryId)
    \/ HandleSave
    \/ \E id \in 1..MaxCustomFields : HandleDeleteCustomField(id)
    \/ \E i \in 1..MaxCustomFields, libraryId \in 1..MaxBindingLibraries :
            AddFieldFromLibrary(i, libraryId, MaxAppFields)

SpecBinding == Init /\ [][NextBinding]_vars

(***************************************************************************)
(* Re-binding: the type select and the options text of a library field.    *)
(***************************************************************************)
\* The standard types the type select of a field outside a library is set to.
RebindTypes == {"text", "number"}

NextRebind ==
    \/ HandleStartCreateLibrary(NoId)
    \/ /\ nextLibraryId <= MaxBindingLibraries
       /\ HandleCreateLibrary("n")
    \/ CreateNewField
    \/ \E name \in NameInputs : EditFieldName(name)
    \/ \E newBaseType \in BindingBaseTypes : ChangeBaseType(newBaseType)
    \/ AddValidationRule(MaxBindingRules)
    \/ \E libraryId \in 1..MaxBindingLibraries : ToggleLibraryAssignment(libraryId)
    \/ HandleSave
    \/ \E i \in 1..MaxCustomFields, libraryId \in 1..MaxBindingLibraries :
            AddFieldFromLibrary(i, libraryId, MaxAppFields)
    \/ \E i \in 1..MaxAppFields, value \in 1..(MaxCustomFields + 1),
          newType \in RebindTypes :
            HandleTypeChange(i, value, newType)
    \/ \E i \in 1..MaxAppFields, lines \in OptionTexts : EditOptions(i, lines)
    \/ \E id \in 1..MaxBindingLibraries : HandleDeleteLibrary(id)

SpecRebind == Init /\ [][NextRebind]_vars

(***************************************************************************)
(* The library forest: creation under a parent, saves and deletion.        *)
(***************************************************************************)
NextLibraryTree ==
    \/ \E parentId \in 0..MaxLibraries : HandleStartCreateLibrary(parentId)
    \/ \E name \in NameInputs : HandleCreateLibrary(name)
    \/ HandleCancelCreateLibrary
    \/ \E i \in 1..MaxLibraries : StartEditLibrary(i)
    \/ \E name \in NameInputs \cup {"m"} : EditLibraryName(name)
    \/ DesignerHandleSaveLibrary
    \/ HandleCancelLibrary
    \/ \E i \in 1..MaxLibraries, parentId \in 1..MaxLibraries :
            HandleSaveLibraryParent(i, parentId)
    \/ \E id \in 1..MaxLibraries : HandleDeleteLibrary(id)

SpecLibraryTree == Init /\ [][NextLibraryTree]_vars

(***************************************************************************)
(* The draft of a custom field type: its base type and its rules.          *)
(***************************************************************************)
NextRules ==
    \/ CreateNewField
    \/ \E k \in 1..Len(BASE_FIELD_TYPES) : ChangeBaseType(BASE_FIELD_TYPES[k])
    \/ AddValidationRule(MaxRules)
    \/ \E index \in 0..(MaxRules - 1), k \in 1..Len(VALIDATION_TYPES) :
            UpdateValidationRuleType(index, VALIDATION_TYPES[k].type)
    \/ \E index \in 0..(MaxRules - 1), text \in {"", "5", "^a$"} :
            UpdateValidationRuleValue(index, text)
    \/ \E index \in 0..(MaxRules - 1) : RemoveValidationRule(index)
    \/ HandleCancel

SpecRules == Init /\ [][NextRules]_vars

(***************************************************************************)
(* FieldDesigner: the drafts of custom field types and of libraries, their *)
(* saves and the deletions.                                                *)
(***************************************************************************)
\* The names the model types into the name inputs of the designer.
DraftNames == NameInputs \cup BlankInputs \cup {"m"}

NextDesigner ==
    \/ CreateNewField
    \/ \E i \in 1..MaxCustomFields : StartEditField(i)
    \/ \E name \in DraftNames : EditFieldName(name)
    \/ HandleSave
    \/ HandleCancel
    \/ \E id \in 1..MaxCustomFields : HandleDeleteCustomField(id)
    \/ CreateNewLibrary
    \/ \E i \in 1..MaxLibraries : StartEditLibrary(i)
    \/ \E name \in DraftNames : EditLibraryName(name)
    \/ DesignerHandleSaveLibrary
    \/ HandleCancelLibrary
    \/ \E id \in 1..MaxLibraries : HandleDeleteLibrary(id)

SpecDesigner == Init /\ [][NextDesigner]_vars

(***************************************************************************)
(* Versions: every handler that writes the schema, with two saved versions.*)
(***************************************************************************)
NextVersions ==
    \/ AddField("text", MaxVersionFields)
    \/ \E i \in 1..MaxVersionFields, value \in LabelInputs : EditLabel(i, value)
    \/ \E id \in 1..MaxVersionFields : DeleteField(id)
    \/ UndoDelete(MaxVersionFields)
    \/ \E id \in 1..MaxVersionFields : HandleMoveClick(id)
    \/ \E targetIndex \in 0..MaxVersionFields : MoveFieldToPosition(targetIndex)
    \/ SaveVersionUpTo(MaxFrozenVersions)
    \/ \E v \in 1..MaxFrozenVersions : LoadVersion(v)

SpecVersions == Init /\ [][NextVersions]_vars

(***************************************************************************)
(* The field editor: the type select and the options text of the fields of *)
(* a schema without libraries, with deletion, undo and versions.           *)
(***************************************************************************)
\* The standard types the type select is switched to.
EditorTypes == {"text", "select", "checkbox"}

NextEditor ==
    \/ AddField("text", MaxEditorFields)
    \/ \E i \in 1..MaxEditorFields, newType \in EditorTypes :
            HandleTypeChange(i, NoId, newType)
    \/ \E i \in 1..MaxEditorFields, lines \in OptionTexts : EditOptions(i, lines)
    \/ \E id \in 1..MaxEditorFields : DeleteField(id)
    \/ UndoDelete(MaxEditorFields)
    \/ SaveVersion
    \/ \E v \in 1..MaxVersions : LoadVersion(v)

SpecEditor == Init /\ [][NextEditor]_vars

(***************************************************************************)
(* Handlers called with ids that may name nothing: a field id absent from  *)
(* the schema, a custom field type or a library absent from the lists.     *)
(***************************************************************************)
NextAbsent ==
    \/ AddField("text", MaxAbsentFields)
    \/ \E id \in 1..(MaxAbsentFields + 1), value \in LabelInputs :
            UpdateField([NewField(id, "text") EXCEPT !.label = value],
                        "updateField")
    \/ \E id \in 1..(MaxAbsentFields + 1) : DeleteField(id)
    \/ \E id \in 1..MaxAbsentFields : HandleMoveClick(id)
    \/ \E targetIndex \in 0..MaxAbsentFields : MoveFieldToPosition(targetIndex)
    \/ CreateNewField
    \/ \E name \in NameInputs : EditFieldName(name)
    \/ HandleSave
    \/ CreateNewLibrary
    \/ \E name \in NameInputs : EditLibraryName(name)
    \/ DesignerHandleSaveLibrary
    \/ \E id \in 1..(MaxCustomFields + 1) : HandleDeleteCustomField(id)
    \/ \E id \in 1..(MaxLibraries + 1) : HandleDeleteLibrary(id)

SpecAbsent == Init /\ [][NextAbsent]_vars

(***************************************************************************)
(* The modal: create and edit sessions on the registry.                    *)
(***************************************************************************)
\* The names typed into the modal.
ModalNames == {"", "n", "m"}

NextModal ==
    \/ ~isOpen /\ HandleStartCreateLibrary(NoId)
    \/ /\ ~isOpen
       /\ nextLibraryId <= MaxModalLibraries
       /\ HandleCreateLibrary("n")
    \/ \E libraryId \in 0..MaxModalLibraries : OpenCreateModal(libraryId)
    \/ \E i \in 1..MaxModalIds : OpenEditModal(i)
    \/ \E name \in ModalNames : ModalUpdateName(name)
    \/ \E libraryId \in 1..MaxModalLibraries :
            ModalToggleLibraryAssignment(libraryId)
    \/ ModalHandleSave
    \/ ModalHandleCancel

SpecModal == Init /\ [][NextModal]_vars

(***************************************************************************)
(* The preview: values entered while the builder edits the field.          *)
(***************************************************************************)
\* The texts typed into the inputs of the preview.
PreviewTexts == {<<>>, <<"a">>, <<"a", "b">>}

NextPreview ==
    \/ AddField("text", MaxPreviewFields)
    \/ \E i \in 1..MaxPreviewFields, checked \in BOOLEAN : EditMultiple(i, checked)
    \/ \E i \in 1..MaxPreviewFields, text \in PreviewTexts,
          index \in 0..(MaxSlots - 1) : HandleChange(i, text, index)
    \/ \E i \in 1..MaxPreviewFields : AddValue(i)
    \/ \E i \in 1..MaxPreviewFields, index \in 0..(MaxSlots - 1) :
            RemoveValue(i, index)

SpecPreview == Init /\ [][NextPreview]_vars

(***************************************************************************)
(* Properties.  Each is stated on the state a handler leaves, with the     *)
(* state it found (last.pre) and its arguments (last.id, last.idx).        *)
(***************************************************************************)
\* The ids of a list of fields, in order.
Ids(fields) == [i \in 1..Len(fields) |-> fields[i].id]

\* The number of positions of seq that hold x.
Count(seq, x) == Cardinality({i \in 1..Len(seq) : seq[i] = x})

\* seq without its element at position k (1-based).
RemoveAt(seq, k) ==
    [j \in 1..(Len(seq) - 1) |-> IF j < k THEN seq[j] ELSE seq[j + 1]]

\* The same elements the same number of times, in any order.
SameElements(a, b) ==
    /\ Len(a) = Len(b)
    /\ \A i \in 1..Len(a) : Count(a, a[i]) = Count(b, a[i])

PreFields == last.pre.schema.fields

\* C1: no two fields of the live schema share the same id, in every state
\* reachable by addField, deleteField, undoDelete, moveToPosition,
\* saveVersion and loadVersion.
C1_UniqueFieldIds ==
    \A i, j \in 1..Len(schema.fields) :
        i # j => schema.fields[i].id # schema.fields[j].id

\* C2: moveToPosition is a pure permutation: the fields after the move are
\* the fields before it (same ids, same contents, same multiplicity), for
\* every target index in 0..length.
C2_MoveIsPermutation ==
    last.op = "moveFieldToPosition" =>
        /\ SameElements(PreFields, schema.fields)
        /\ SameElements(Ids(PreFields), Ids(schema.fields))

\* C2 witness: a move that changed the order of a three-field schema.
C2_Witness ==
    /\ last.op = "moveFieldToPosition"
    /\ Len(schema.fields) = 3
    /\ schema.fields # PreFields
    /\ SameElements(PreFields, schema.fields)

\* C3: the adjusted-index rule.  The source, found at index i, ends at index
\* targetIndex-1 when targetIndex > i and at targetIndex otherwise; the
\* other fields keep their relative order; a move to i or i+1 changes
\* nothing; on [f0,f1,f2,f3], f0 to 3 gives [f1,f2,f0,f3] and f3 to 0 gives
\* [f3,f0,f1,f2].
C3_AdjustedIndexRule ==
    (last.op = "moveFieldToPosition" /\ FindIndex(PreFields, last.id) # -1) =>
        LET i == FindIndex(PreFields, last.id)
            t == last.idx
            a == IF t > i THEN t - 1 ELSE t
        IN  /\ Len(schema.fields) = Len(PreFields)
            /\ schema.fields[a + 1] = PreFields[i + 1]
            /\ RemoveAt(schema.fields, a + 1) = RemoveAt(PreFields, i + 1)
            /\ (t \in {i, i + 1} => schema.fields = PreFields)
            /\ (Ids(PreFields) = <<1, 2, 3, 4>> /\ last.id = 1 /\ t = 3
                    => Ids(schema.fields) = <<2, 3, 1, 4>>)
            /\ (Ids(PreFields) = <<1, 2, 3, 4>> /\ last.id = 4 /\ t = 0
                    => Ids(schema.fields) = <<4, 1, 2, 3>>)

\* C3 witness: f0 of [f0,f1,f2,f3] moved to target index 3.
C3_Witness ==
    /\ last.op = "moveFieldToPosition"
    /\ Ids(PreFields) = <<1, 2, 3, 4>>
    /\ last.id = 1
    /\ last.idx = 3
    /\ Ids(schema.fields) = <<2, 3, 1, 4>>

\* C4: deleteField(id) of a field of the schema immediately followed by
\* undoDelete() restores the schema as it was before the deletion.
C4_DeleteUndoRestores ==
    (last.op = "undoDelete" /\ last.beforeDelete # None) =>
        schema = last.beforeDelete[1]

\* C5: undoDelete re-inserts the deleted field at its recorded index when
\* that index is at most the current number of fields and appends it
\* otherwise; the fields already present keep their order and none is lost.
C5_UndoInsertsOrAppends ==
    (last.op = "undoDelete" /\ last.pre.deletedField # None) =>
        LET d == last.pre.deletedField[1]
            n == Len(PreFields)
            k == IF d.index <= n THEN d.index ELSE n
        IN  /\ Len(schema.fields) = n + 1
            /\ schema.fields[k + 1] = d.field
            /\ RemoveAt(schema.fields, k + 1) = PreFields

\* C5 witness: an undo whose recorded index lies beyond the end of the
\* schema it finds, so the field was appended.
C5_Witness ==
    /\ last.op = "undoDelete"
    /\ last.pre.deletedField # None
    /\ last.pre.deletedField[1].index > Len(PreFields)
    /\ schema.fields[Len(schema.fields)] = last.pre.deletedField[1].field

\* C6: a single pending-undo record.  A deleteField of a field of the schema
\* leaves the record of that field alone, whatever was pending; no other
\* handler writes a record; undoDelete re-inserts the pending field only,
\* consumes the record, and changes nothing when nothing is pending.
C6_SinglePendingUndo ==
    /\ (last.op = "deleteField" /\ last.idx # -1) =>
            deletedField = Some([field |-> PreFields[last.idx + 1],
                                 index |-> last.idx])
    /\ (last.op # "deleteField") =>
            deletedField \in {None, last.pre.deletedField}
    /\ (last.op = "undoDelete") =>
            /\ deletedField = None
            /\ (last.pre.deletedField = None => schema = last.pre.schema)
            /\ (last.pre.deletedField # None =>
                    /\ Len(schema.fields) = Len(PreFields) + 1
                    /\ \A i \in 1..Len(schema.fields) :
                          Count(schema.fields, schema.fields[i]) =
                            Count(PreFields, schema.fields[i]) +
                            (IF schema.fields[i] = last.pre.deletedField[1].field
                             THEN 1 ELSE 0))

\* C6 witness: two fields were added and both deleted, the second deletion
\* overwriting the record of the first, and the undo restored the second
\* field only.
C6_Witness ==
    /\ last.op = "undoDelete"
    /\ savedVersions = <<>>
    /\ nextFieldId = 3
    /\ PreFields = <<>>
    /\ last.pre.deletedField # None
    /\ Ids(schema.fields) = <<last.pre.deletedField[1].field.id>>
    /\ deletedField = None

\* C7: addField leaves the existing fields unchanged, in order, and puts the
\* new field last; deleteField(id) of a field of the schema removes exactly
\* one field and leaves the others unchanged in the same relative order.
C7_OrderPreservation ==
    /\ (last.op = "addField") =>
            /\ Len(schema.fields) = Len(PreFields) + 1
            /\ SubSeq(schema.fields, 1, Len(PreFields)) = PreFields
            /\ schema.fields[Len(schema.fields)].id = last.id
    /\ (last.op = "deleteField" /\ last.idx # -1) =>
            /\ Len(schema.fields) = Len(PreFields) - 1
            /\ \E k \in 1..Len(PreFields) :
                  /\ PreFields[k].id = last.id
                  /\ schema.fields = RemoveAt(PreFields, k)

\* C8: after deleteLibrary(L) no custom field type lists L, every custom
\* field type of the registry is still there, at its place, and everything
\* but L in its libraryIds is unchanged.
C8_LibraryCascade ==
    last.op = "handleDeleteLibrary" =>
        /\ Len(customFields) = Len(last.pre.customFields)
        /\ \A i \in 1..Len(customFields) :
              LET before == last.pre.customFields[i]
                  after  == customFields[i]
              IN  /\ [after EXCEPT !.libraryIds = None] =
                        [before EXCEPT !.libraryIds = None]
                  /\ (before.libraryIds = None) = (after.libraryIds = None)
                  /\ before.libraryIds # None =>
                        /\ \A j \in 1..Len(after.libraryIds[1]) :
                              after.libraryIds[1][j] # last.id
                        /\ after.libraryIds[1] =
                              SelectSeq(before.libraryIds[1],
                                        LAMBDA x : x # last.id)

\* C8 witness: library L, assigned to two custom field types of which one
\* is in another library too, was deleted.
C8_Witness ==
    /\ last.op = "handleDeleteLibrary"
    /\ Len(last.pre.customFields) = 2
    /\ \A i \in 1..2 :
          /\ last.pre.customFields[i].libraryIds # None
          /\ \E j \in 1..Len(last.pre.customFields[i].libraryIds[1]) :
                last.pre.customFields[i].libraryIds[1][j] = last.id
    /\ \E i \in 1..2 : Len(last.pre.customFields[i].libraryIds[1]) = 2
    /\ Len(customFields) = 2

\* C9: deleteLibrary(id) promotes the children of the deleted library to
\* root: no remaining library has parentId = id, so every parentId that is
\* set names a library of the list.
C9_ChildrenPromoted ==
    /\ last.op = "handleDeleteLibrary" =>
            \A l \in 1..Len(fieldLibraries) : fieldLibraries[l].parentId # last.id
    /\ \A l \in 1..Len(fieldLibraries) :
            fieldLibraries[l].parentId # NoId =>
                \E m \in 1..Len(fieldLibraries) :
                    fieldLibraries[m].id = fieldLibraries[l].parentId

\* C10: deleteLibrary(id) leaves the live schema and the saved versions as
\* they are, also when a field of the schema has libraryId = id.
C10_DeleteLibraryKeepsSchema ==
    last.op = "handleDeleteLibrary" =>
        /\ schema = last.pre.schema
        /\ savedVersions = last.pre.savedVersions

\* C10 witness: the deleted library is the libraryId of a field of the live
\* schema and of a field of a saved version.
C10_Witness ==
    /\ last.op = "handleDeleteLibrary"
    /\ \E l \in 1..Len(last.pre.fieldLibraries) :
          last.pre.fieldLibraries[l].id = last.id
    /\ \E i \in 1..Len(schema.fields) :
          /\ schema.fields[i].libraryId = last.id
          /\ schema.fields[i].customFieldTypeId # NoId
    /\ \E v \in 1..Len(savedVersions) :
          \E i \in 1..Len(savedVersions[v].schema.fields) :
              savedVersions[v].schema.fields[i].libraryId = last.id

\* C11: after deleteCustomFieldType(id) no field of the schema keeps
\* customFieldTypeId = id, so every customFieldTypeId set on a field names a
\* custom field type of the registry.
C11_NoDanglingCustomType ==
    /\ last.op = "handleDeleteCustomField" =>
            \A i \in 1..Len(schema.fields) :
                schema.fields[i].customFieldTypeId # last.id
    /\ \A i \in 1..Len(schema.fields) :
            schema.fields[i].customFieldTypeId # NoId =>
                \E c \in 1..Len(customFields) :
                    customFields[c].id = schema.fields[i].customFieldTypeId

\* The library that is n steps of parentId above library id in the list
\* libs: NoId past a root or past a parentId that names no library.
RECURSIVE AncestorAt(_, _, _)
AncestorAt(libs, id, n) ==
    IF n = 0 THEN id
    ELSE LET below == AncestorAt(libs, id, n - 1)
             k     == FindIndex(libs, below)
         IN  IF below = NoId \/ k = -1 THEN NoId ELSE libs[k + 1].parentId

\* Library id is its own ancestor in libs.
OwnAncestor(libs, id) == \E n \in 1..Len(libs) : AncestorAt(libs, id, n) = id

KindApplies(kind, baseType) ==
    \/ kind \in {"regex", "minLength", "maxLength"}
            /\ baseType \in {"text", "email", "textarea"}
    \/ kind \in {"min", "max"} /\ baseType \in {"number", "date"}

\* The rules of a list whose kind applies to a base type, in their order.
RECURSIVE RulesFor(_, _)
RulesFor(rules, baseType) ==
    IF rules = <<>> THEN <<>>
    ELSE (IF KindApplies(Head(rules).type, baseType)
          THEN <<Head(rules)>> ELSE <<>>) \o RulesFor(Tail(rules), baseType)

\* C14: changeBaseType(draft, newBaseType) leaves exactly the previous rules
\* whose kind applies to newBaseType, in their order and as they were; a
\* regex rule of a text type is dropped by number and kept by email.
C14_ChangeBaseTypeFilters ==
    last.op = "changeBaseType" =>
        LET before == last.pre.editingField[1]
            after  == editingField[1]
        IN  /\ after.validationRules =
                    RulesFor(before.validationRules, after.baseType)
            /\ (/\ before.baseType = "text"
                /\ Len(before.validationRules) = 1
                /\ before.validationRules[1].type = "regex") =>
                  /\ after.baseType = "number" => after.validationRules = <<>>
                  /\ after.baseType = "email" =>
                        after.validationRules = before.validationRules
            /\ [after EXCEPT !.validationRules = <<>>, !.baseType = "text"] =
                    [before EXCEPT !.validationRules = <<>>, !.baseType = "text"]

\* C14 witness: a text draft with a regex and a length rule became a number
\* draft and lost both.
C14_Witness ==
    /\ last.op = "changeBaseType"
    /\ last.pre.editingField[1].baseType = "text"
    /\ Len(last.pre.editingField[1].validationRules) = 2
    /\ last.pre.editingField[1].validationRules[1].type = "regex"
    /\ last.pre.editingField[1].validationRules[2].type = "minLength"
    /\ editingField[1].baseType = "number"
    /\ editingField[1].validationRules = <<>>

\* C15: a save of a custom field type or of a library whose name is empty
\* or blank changes nothing: the registry and the library list are as they
\* were and the draft is still open as it was; no stored entry has an empty
\* trimmed name.
C15_BlankNameSaveRefused ==
    /\ (/\ last.op = "handleSave"
        /\ last.pre.editingField[1].name \in {"", " "}) =>
            /\ customFields = last.pre.customFields
            /\ fieldLibraries = last.pre.fieldLibraries
            /\ editingField = last.pre.editingField
            /\ editingLibrary = last.pre.editingLibrary
    /\ (/\ last.op = "designerHandleSaveLibrary"
        /\ last.pre.editingLibrary[1].name \in {"", " "}) =>
            /\ customFields = last.pre.customFields
            /\ fieldLibraries = last.pre.fieldLibraries
            /\ editingField = last.pre.editingField
            /\ editingLibrary = last.pre.editingLibrary
    /\ \A c \in 1..Len(customFields) : customFields[c].name \notin {"", " "}
    /\ \A l \in 1..Len(fieldLibraries) : fieldLibraries[l].name \notin {"", " "}

\* C15 witness: the draft of a stored custom field type was saved with a
\* blank name and is still open, while a library is stored.
C15_Witness ==
    /\ last.op = "handleSave"
    /\ editingField # None
    /\ editingField[1].name = " "
    /\ \E c \in 1..Len(customFields) :
          /\ customFields[c].id = editingField[1].id
          /\ customFields[c].name = "n"
    /\ Len(fieldLibraries) = 1

\* C16: a save of an entry whose id is stored replaces that entry where it
\* stands and leaves the length and the other entries as they were; a save
\* of an entry with a new id appends it; no two stored custom field types
\* and no two stored libraries share an id.
C16_Upsert ==
    /\ (/\ last.op = "handleSave"
        /\ last.pre.editingField[1].name \notin {"", " "}) =>
            LET pre   == last.pre.customFields
                entry == last.pre.editingField[1]
            IN  IF \E k \in 1..Len(pre) : pre[k].id = entry.id
                THEN /\ Len(customFields) = Len(pre)
                     /\ \A k \in 1..Len(pre) :
                           customFields[k] =
                               IF pre[k].id = entry.id THEN entry ELSE pre[k]
                ELSE /\ Len(customFields) = Len(pre) + 1
                     /\ SubSeq(customFields, 1, Len(pre)) = pre
                     /\ customFields[Len(pre) + 1] = entry
    /\ (/\ last.op = "designerHandleSaveLibrary"
        /\ last.pre.editingLibrary[1].name \notin {"", " "}) =>
            LET pre   == last.pre.fieldLibraries
                entry == last.pre.editingLibrary[1]
            IN  IF \E k \in 1..Len(pre) : pre[k].id = entry.id
                THEN /\ Len(fieldLibraries) = Len(pre)
                     /\ \A k \in 1..Len(pre) :
                           fieldLibraries[k] =
                               IF pre[k].id = entry.id THEN entry ELSE pre[k]
                ELSE /\ Len(fieldLibraries) = Len(pre) + 1
                     /\ SubSeq(fieldLibraries, 1, Len(pre)) = pre
                     /\ fieldLibraries[Len(pre) + 1] = entry
    /\ \A a, b \in 1..Len(customFields) :
            customFields[a].id = customFields[b].id => a = b
    /\ \A a, b \in 1..Len(fieldLibraries) :
            fieldLibraries[a].id = fieldLibraries[b].id => a = b

\* C16 witness: the first of two stored custom field types was saved again
\* under another name and replaced where it stood.
C16_Witness ==
    /\ last.op = "handleSave"
    /\ Len(last.pre.customFields) = 2
    /\ last.pre.customFields[1].id = last.pre.editingField[1].id
    /\ last.pre.customFields[1].name = "n"
    /\ Len(customFields) = 2
    /\ customFields[1].name = "m"
    /\ customFields[2] = last.pre.customFields[2]

\* C17: once a field is bound to a custom field type, the edits of that
\* type's draft, its saves and its deletion leave the field's validationRules,
\* type and options as they are: only an operation on the field changes them.
C17_CopySemantics ==
    last.op \in {"createNewField", "startEditField", "editFieldName",
                 "changeBaseType", "addValidationRule",
                 "toggleLibraryAssignment", "handleSave",
                 "handleDeleteCustomField"} =>
        /\ Len(schema.fields) = Len(last.pre.schema.fields)
        /\ \A i \in 1..Len(schema.fields) :
              /\ schema.fields[i].validationRules =
                    last.pre.schema.fields[i].validationRules
              /\ schema.fields[i].type = last.pre.schema.fields[i].type
              /\ schema.fields[i].options = last.pre.schema.fields[i].options
              /\ schema.fields[i].customFieldTypeId =
                    last.pre.schema.fields[i].customFieldTypeId

\* C17 witness: the custom field type a field is bound to was saved with
\* another base type and other rules than the field has.
C17_Witness ==
    /\ last.op = "handleSave"
    /\ \E i \in 1..Len(schema.fields), c \in 1..Len(customFields) :
          /\ schema.fields[i].customFieldTypeId = customFields[c].id
          /\ customFields[c].id = last.id
          /\ schema.fields[i].type = "text"
          /\ schema.fields[i].validationRules = Some(<<>>)
          /\ customFields[c].baseType = "number"
          /\ Len(customFields[c].validationRules) = 1

\* The field a re-binding of `before` to customType gives, with `options`
\* for its options: type and customFieldTypeId of the custom type, its rules,
\* and id, label, placeholder, required, multiple and libraryId of `before`.
Rebound(before, customType, options) ==
    [id |-> before.id, label |-> before.label,
     placeholder |-> before.placeholder, required |-> before.required,
     multiple |-> before.multiple, libraryId |-> before.libraryId,
     type |-> customType.baseType, customFieldTypeId |-> customType.id,
     options |-> options,
     validationRules |-> Some(customType.validationRules)]

\* The custom field type of the registry with the id of the last re-binding.
LastCustomType ==
    customFields[CHOOSE c \in 1..Len(customFields) : customFields[c].id = last.idx]

\* C18 as amended: setFieldTypeFromLibrary(fieldId, customFieldTypeId) with a
\* custom type of the registry sets type and customFieldTypeId from it,
\* overwrites validationRules with its rules, leaves id, label, placeholder,
\* required, multiple and the position as they are, and sets options to none
\* unless the base type is dropdown, where the field keeps the options it has
\* and gets the three default options when it has none; an unknown
\* customFieldTypeId leaves the schema unchanged.
C18_SetFieldTypeFromLibrary ==
    last.op = "handleTypeChangeLibrary" =>
        LET pre == last.pre.schema.fields
        IN  IF \E c \in 1..Len(customFields) : customFields[c].id = last.idx
            THEN /\ Len(schema.fields) = Len(pre)
                 /\ \A i \in 1..Len(pre) :
                       schema.fields[i] =
                           IF pre[i].id = last.id
                           THEN Rebound(pre[i], LastCustomType,
                                    IF LastCustomType.baseType # "select"
                                    THEN None
                                    ELSE IF pre[i].options # None
                                         THEN pre[i].options
                                         ELSE Some(<<"Option 1", "Option 2",
                                                     "Option 3">>))
                           ELSE pre[i]
            ELSE schema = last.pre.schema

\* C18 witness: a dropdown field with the options text "x" was bound to a
\* dropdown custom type and kept its options.
C18_Witness ==
    /\ last.op = "handleTypeChangeLibrary"
    /\ \E c \in 1..Len(customFields) : customFields[c].id = last.idx
    /\ LastCustomType.baseType = "select"
    /\ \E i \in 1..Len(schema.fields) :
          /\ schema.fields[i].id = last.id
          /\ last.pre.schema.fields[i].options = Some(<<"x">>)
          /\ last.pre.schema.fields[i].customFieldTypeId # last.idx
          /\ schema.fields[i].options = Some(<<"x">>)
          /\ schema.fields[i].customFieldTypeId = last.idx

\* C18 as stated: as above, but the options of a field bound to a dropdown
\* custom type are the three default options in every case.
C18_OptionsAlwaysDefault ==
    last.op = "handleTypeChangeLibrary" =>
        LET pre == last.pre.schema.fields
        IN  IF \E c \in 1..Len(customFields) : customFields[c].id = last.idx
            THEN /\ Len(schema.fields) = Len(pre)
                 /\ \A i \in 1..Len(pre) :
                       schema.fields[i] =
                           IF pre[i].id = last.id
                           THEN Rebound(pre[i], LastCustomType,
                                    IF LastCustomType.baseType # "select"
                                    THEN None
                                    ELSE Some(<<"Option 1", "Option 2",
                                                "Option 3">>))
                           ELSE pre[i]
            ELSE schema = last.pre.schema

\* C19: a saved version is a frozen snapshot: saveVersion puts a version
\* with the live schema of that moment in front of the list, and every
\* operation, the edits after loading a version included, leaves the versions
\* saved before it in the list, as they were and in their order.
C19_FrozenVersions ==
    /\ last.op = "saveVersion" =>
            /\ Len(savedVersions) = Len(last.pre.savedVersions) + 1
            /\ savedVersions[1].schema = last.pre.schema
            /\ Tail(savedVersions) = last.pre.savedVersions
    /\ last.op # "saveVersion" => savedVersions = last.pre.savedVersions

\* C19 witness: a field of the schema was edited right after the older of two
\* saved versions was loaded; the version still has the field as it was saved.
C19_Witness ==
    /\ last.op = "editLabel"
    /\ Len(savedVersions) = 2
    /\ last.pre.schema = savedVersions[2].schema
    /\ schema # savedVersions[2].schema
    /\ savedVersions[1] # savedVersions[2]
    /\ Len(savedVersions[2].schema.fields) >= 1

\* C20: in every state a field of the schema has options exactly when its
\* type is dropdown, and the options of a dropdown field are a non-empty list.
C20_OptionsOnlyForDropdown ==
    \A i \in 1..Len(schema.fields) :
        /\ (schema.fields[i].options # None) = (schema.fields[i].type = "select")
        /\ schema.fields[i].options # None =>
                Len(schema.fields[i].options[1]) >= 1

\* C21: the value of a rule is a number when its kind is min, max, minLength
\* or maxLength and a string when its kind is regex, in every draft and in
\* every stored custom field type.
C21_RuleValueTypes ==
    /\ editingField # None =>
            \A r \in 1..Len(editingField[1].validationRules) :
                editingField[1].validationRules[r].value.number =
                    (editingField[1].validationRules[r].type
                        \in {"min", "max", "minLength", "maxLength"})
    /\ \A c \in 1..Len(customFields) :
            \A r \in 1..Len(customFields[c].validationRules) :
                customFields[c].validationRules[r].value.number =
                    (customFields[c].validationRules[r].type
                        \in {"min", "max", "minLength", "maxLength"})

C24_TimerKeepsUndoRecord ==
    last.op = "autoDismiss" =>
        /\ schema = last.pre.schema
        /\ deletedField = last.pre.deletedField

\* C27: whenever the editor is in the moving state, the move source is a field
\* of the live schema; and moveFieldToPosition and cancelMove leave the editor
\* out of the moving state.
C27_MoveSourcePresent ==
    /\ movingFieldId # NoId =>
            \E i \in 1..Len(schema.fields) : schema.fields[i].id = movingFieldId
    /\ last.op \in {"moveFieldToPosition", "cancelMove"} => movingFieldId = NoId

\* C28: every library id in the libraryIds of a stored custom field type names
\* a library of the list, and no id is listed twice.
C28_LibraryIdsValid ==
    \A c \in 1..Len(customFields) :
        customFields[c].libraryIds # None =>
            \A j \in 1..Len(customFields[c].libraryIds[1]) :
                /\ \E l \in 1..Len(fieldLibraries) :
                      fieldLibraries[l].id = customFields[c].libraryIds[1][j]
                /\ Count(customFields[c].libraryIds[1],
                         customFields[c].libraryIds[1][j]) = 1

\* C29: the validationRules of a field of the schema hold only rules whose
\* kind applies to the type of the field, and a field without
\* customFieldTypeId has no rules of a custom field type left: the switch of a
\* formerly library-bound field to a standard type clears or re-filters its
\* rules together with customFieldTypeId.
C29_FieldRulesFitType ==
    \A i \in 1..Len(schema.fields) :
        LET field == schema.fields[i]
        IN  /\ field.validationRules # None =>
                  \A r \in 1..Len(field.validationRules[1]) :
                      KindApplies(field.validationRules[1][r].type, field.type)
            /\ field.customFieldTypeId = NoId =>
                  field.validationRules \in {None, Some(<<>>)}

\* The nodes of a forest, each followed by the nodes below it.
RECURSIVE ForestNodes(_)
ForestNodes(forest) ==
    IF forest = <<>> THEN <<>>
    ELSE <<Head(forest)>> \o ForestNodes(Head(forest).children)
                          \o ForestNodes(Tail(forest))

C23_CancelDiscardsDraft ==
    /\ last.op \in {"modalUpdateName", "modalToggleLibraryAssignment",
                    "modalHandleCancel", "editFieldName",
                    "toggleLibraryAssignment", "handleCancel"} =>
            customFields = last.pre.customFields
    /\ last.op = "openEditModal" => modalField = customFields[last.idx + 1]
    /\ last.op = "startEditField" =>
            editingField = Some(customFields[last.idx + 1])

\* C25: a creation session starts from an empty draft under a fresh id: the
\* draft the create modal opens with has no name, the libraryIds of the
\* pre-selection and an id no stored custom type has, so that a save in create
\* mode adds one entry to the registry and replaces none.
C25_CreateStartsEmpty ==
    /\ last.op = "openCreateModal" =>
            /\ modalField = CreateEmptyField(modalField.id, last.idx)
            /\ \A c \in 1..Len(customFields) :
                  customFields[c].id # modalField.id
    /\ (/\ last.op = "modalHandleSave"
        /\ last.pre.modalEditingField = None
        /\ Trim(last.pre.modalField.name) # "") =>
            customFields = last.pre.customFields \o <<last.pre.modalField>>

\* The field of the schema, now or before the last operation, with the id of
\* the last operation.
LastFieldIn(fields) ==
    fields[CHOOSE i \in 1..Len(fields) : fields[i].id = last.id]

\* C30: the value entered for a field is a string while the field is
\* single-valued and a list of at least one string while it is multiple, also
\* after the multiple flag changed with a value entered; addValue appends one
\* empty slot to the values shown, removeValue removes the slot at its index
\* and nothing when one slot is shown, and setValue changes the addressed slot
\* only.
C30_PreviewValueShape ==
    /\ \A i \in 1..Len(schema.fields) :
          schema.fields[i].id \in DOMAIN values =>
              /\ values[schema.fields[i].id].array = schema.fields[i].multiple
              /\ Len(values[schema.fields[i].id].items) >= 1
    /\ last.op \in {"addValue", "removeValue", "handleChange"} =>
          LET before == RenderedValues(LastFieldIn(schema.fields), last.pre.values)
              after  == RenderedValues(LastFieldIn(schema.fields), values)
          IN  /\ last.op = "addValue" => after = before \o <<<<>>>>
              /\ last.op = "removeValue" =>
                    after = IF Len(before) <= 1 THEN before
                            ELSE RemoveAt(before, last.idx + 1)
              /\ last.op = "handleChange" =>
                    /\ Len(after) = Len(before)
                    /\ \A k \in 1..Len(before) :
                          k # last.idx + 1 => after[k] = before[k]

====
